---- MODULE Spec2Model ----
(***************************************************************************)
(* Transcript synchronisation scripts of the 20 Minute Leaders website.    *)
(*                                                                         *)
(* Each script under src/scripts is a sequential process that may be       *)
(* started, run to its end, or be killed at any point; what survives a     *)
(* kill is what is on disk and what is held by the external services.      *)
(*                                                                         *)
(*   aai*   scripts/assemblyai_transcribe.py                              *)
(*   drv*   scripts/sync_transcripts_to_drive.py                           *)
(*   dl*    scripts/download_transcripts.py                                *)
(*   cap*   scripts/pull_youtube_captions.py                               *)
(*   yts*   scripts/sync_youtube_transcripts_to_notion.py                  *)
(*   stn*   scripts/sync_transcripts_to_notion.py                          *)
(***************************************************************************)
EXTENDS Integers, Sequences, FiniteSets, TLC

\* ------------------------------------------------------------------ bounds
NumEpisodes == 2
NumMatched == 2
NumSrt == 2
NumVideos == 2
MaxWords == 102
MaxMixed == 3
MaxCatalog == 2
MaxLines == 3
MaxUtterances == 3
MaxRuns == 2
MaxFaults == 1

\* ------------------------------------------------------- program constants
MaxWait == 600
PollSleep == 10
CapEvery == 10
YtsEvery == 5
ChunkMax == 1900
BlockCharLimit == 2000
BlockLimit == 100
YtsMaxChunks == 97
StnMaxChunks == 100
ThresholdTenths == 6

Episodes == 1..NumEpisodes
Matched == 1..NumMatched
SrtFiles == 1..NumSrt
Videos == 1..NumVideos
VttFiles == 1..(YtsEvery + 1)

\* ----------------------------------------------------------------- helpers
RECURSIVE Ascending(_)
\* the elements of a finite set of integers, smallest first
Ascending(S) ==
  IF S = {} THEN <<>>
  ELSE LET m == CHOOSE x \in S : \A y \in S : x <= y
       IN <<m>> \o Ascending(S \ {m})

RECURSIVE Descending(_)
\* the elements of a finite set of integers, largest first
Descending(S) ==
  IF S = {} THEN <<>>
  ELSE LET m == CHOOSE x \in S : \A y \in S : y <= x
       IN <<m>> \o Descending(S \ {m})

Range(s) == {s[i] : i \in 1..Len(s)}

\* dict.pop(k, None) and dict[k] = v on a dict held as a function
DictPop(d, k) == [x \in (DOMAIN d) \ {k} |-> d[x]]
DictSet(d, k, v) == [x \in (DOMAIN d) \cup {k} |-> IF x = k THEN v ELSE d[x]]
EmptyDict == [x \in {} |-> 0]

\* A file written with open(..., 'w') / Path.write_text: "nofile" before it
\* is first written, "partial" between the truncating open and the end of
\* the write, "ok" with the content val afterwards.
FileAbsent(v) == [st |-> "nofile", val |-> v]
FilePartial(v) == [st |-> "partial", val |-> v]
FileOk(v) == [st |-> "ok", val |-> v]

VARIABLES
  aaiFile,       \* PROGRESS_FILE (assemblyai_progress.json) on disk
  aaiProgress,   \* main's progress dict
  aaiPc,         \* position of the process; "idle" when no process runs
  aaiTodo,       \* episodes the batch loop has still to visit
  aaiEp,         \* episode_num of the running transcribe_episode call (0: none)
  aaiTid,        \* transcript_id, NoTid when not set
  aaiWaited,     \* seconds slept by poll_transcription
  aaiErr,        \* the exception on its way to the except clause
  aaiOut,        \* output_file per episode: "absent", "short" or "long"
  aaiSubmitted,  \* jobs the service has created, per episode
  aaiFaults,     \* requests that have raised, timed out or reported an error
  aaiRuns,       \* processes started so far
  aaiFresh,      \* the running call submitted aaiTid itself

  drvFile,       \* PROGRESS_FILE (transcript_sync_progress.json) on disk
  drvProgress,   \* main's progress dict
  drvPc,         \* position of the process; "idle" when no process runs
  drvI,          \* the loop index i, counted from 0 as in the source
  drvEnd,        \* end_index
  drvPages,      \* per matched entry, the transcript its Notion page holds
  drvDocs,       \* per Drive folder, the transcript documents in it
  drvRuns,       \* processes started so far
  drvFaults,     \* requests that have failed

  dlGuest,       \* per Drive .srt file, the episode match_guest accepts (0: none)
  dlSrt,         \* the .srt files present in TRANSCRIPTS_DIR
  dlTxt,         \* the .txt files present in TRANSCRIPTS_DIR
  dlSrtWrites,   \* writes of each .srt path
  dlTxtWrites,   \* writes of each .txt path
  dlMapping,     \* main's mapping list
  dlMappingFile, \* mapping.json on disk
  dlPc,          \* position of the process; "idle" when no process runs
  dlTodo,        \* episode_srts still to visit
  dlCur,         \* the srt of the running iteration (0: none)
  dlRuns,        \* processes started so far
  dlFaults,      \* requests that have failed
  dlFilepath,    \* what download_file returned for each file in this run

  capSource,     \* per video, the captions YouTube holds
  capVtt,        \* per video, its .en.vtt file: "absent", "short" or "long"
  capTxt,        \* the videos whose .txt file exists
  capFile,       \* PROGRESS_FILE (caption_progress.json) on disk
  capProgress,   \* main's progress dict
  capPc,         \* position of the process; "idle" when no process runs
  capTodo,       \* to_process, then the .vtt files to convert
  capI,          \* the loop index i, counted from 0 as in the source
  capResult,     \* result of the last download_captions call
  capRuns,       \* processes started so far
  capFaults,     \* yt-dlp runs that have failed or timed out
  capDownloads,  \* yt-dlp runs of the latest process
  capTxtWrites,  \* .txt files written by the latest process
  capFirst,      \* the ledger the first process saved at its end
  capTimedOut,   \* videos whose last download_captions call timed out

  ytsPages,      \* the Notion page of each episode
  ytsFile,       \* SYNCED_FILE (notion_sync_progress.json) on disk
  ytsData,       \* main's synced_data dict
  ytsPc,         \* position of the process; "idle" when no process runs
  ytsTodo,       \* to_process
  ytsI,          \* the loop index i, counted from 0 as in the source
  ytsRuns,       \* processes started so far
  ytsFaults,     \* requests and reads that have failed
  ytsAppends,    \* append requests of the latest process
  ytsFirst,      \* the ledger the first process saved at its end

  stnText,       \* per mapped episode, the text file at its text_path
  stnPc,         \* position of the process; "idle" when no process runs,
                 \* "crashed" when the last one ended on an exception
  stnTodo,       \* the entries of by_episode not yet reached
  stnEp,         \* ep_num of the entry being processed
  stnSynced,     \* main's counter synced
  stnFailed,     \* main's counter failed
  stnRuns,       \* processes started so far
  stnFaults,     \* requests that have failed

  mgName,        \* srt['name'], the file name match_guest is given
  mgEpisodes,    \* episodes, as the sequence of their guest names
  mgPc,          \* "call", "returned" from match_guest, "done" with line 126
  mgResult,      \* the pair match_guest returned
  mgAccepted,    \* the episode main matched the file to, 0 for none

  cvTrack,       \* the lines of the caption file the converter is given
  cvFn,          \* the converter that is called
  cvPc,          \* "call", "returned", "again" after the call on the output
  cvOut,         \* the text the converter produced
  cvAgain,       \* the text the converter produced from cvOut

  fmtResult,     \* result: its utterances and its text
  fmtPc,         \* "call" or "returned"
  fmtOut,        \* what format_transcript_with_speakers returned

  chkText,       \* transcript_text, as the lengths of its words
  chkPc,         \* "split" in the loop over words, "blocks" after it
  chkI,          \* words the loop has taken
  chkChunks,     \* chunks, as the lengths of their texts
  chkCur,        \* current_chunk
  chkLen,        \* current_len
  chkYts,        \* blocks built by sync_youtube_transcripts_to_notion.py
  chkStn,        \* blocks built by sync_transcripts_to_notion.py
  chkParts       \* the words joined into each chunk of chkChunks

aaiVars == <<aaiFile, aaiProgress, aaiPc, aaiTodo, aaiEp, aaiTid, aaiWaited,
             aaiErr, aaiOut, aaiSubmitted, aaiFaults, aaiRuns, aaiFresh>>

drvVars == <<drvFile, drvProgress, drvPc, drvI, drvEnd, drvPages, drvDocs,
             drvRuns, drvFaults>>

dlVars == <<dlGuest, dlSrt, dlTxt, dlSrtWrites, dlTxtWrites, dlMapping,
            dlMappingFile, dlPc, dlTodo, dlCur, dlRuns, dlFaults, dlFilepath>>

capVars == <<capSource, capVtt, capTxt, capFile, capProgress, capPc, capTodo,
             capI, capResult, capRuns, capFaults, capDownloads, capTxtWrites,
             capFirst, capTimedOut>>

ytsVars == <<ytsPages, ytsFile, ytsData, ytsPc, ytsTodo, ytsI, ytsRuns,
             ytsFaults, ytsAppends, ytsFirst>>

stnVars == <<stnText, stnPc, stnTodo, stnEp, stnSynced, stnFailed, stnRuns,
             stnFaults>>

chkVars == <<chkText, chkPc, chkI, chkChunks, chkCur, chkLen, chkYts, chkStn,
             chkParts>>

mgVars == <<mgName, mgEpisodes, mgPc, mgResult, mgAccepted>>

cvVars == <<cvTrack, cvFn, cvPc, cvOut, cvAgain>>

fmtVars == <<fmtResult, fmtPc, fmtOut>>

vars == <<aaiVars, drvVars, dlVars, capVars, ytsVars, stnVars, chkVars, mgVars,
          cvVars, fmtVars>>

\* ======================================================================
\* scripts/assemblyai_transcribe.py
\* ======================================================================
\* The service names each job with a fresh id: the n-th job made for episode
\* e is <<e, n>>.
NoTid == <<0, 0>>

AaiEmptyProgress == [completed |-> <<>>, failed |-> <<>>, pending |-> EmptyDict]

\* load_progress: the file's content, or the empty ledger when there is none
AaiLoadProgress(file) == IF file.st = "ok" THEN file.val ELSE AaiEmptyProgress

\* get_episodes_to_transcribe (no --limit given): the episodes with no
\* output file, newest first
GetEpisodesToTranscribe(out) ==
  Descending({e \in Episodes : out[e] = "absent"})

AaiInit ==
  /\ aaiFile = FileAbsent(AaiEmptyProgress)
  /\ aaiProgress = AaiEmptyProgress
  /\ aaiPc = "idle"
  /\ aaiTodo = <<>>
  /\ aaiEp = 0
  /\ aaiTid = NoTid
  /\ aaiWaited = 0
  /\ aaiErr = "none"
  /\ aaiOut = [e \in Episodes |-> "absent"]
  /\ aaiSubmitted = [e \in Episodes |-> 0]
  /\ aaiFaults = 0
  /\ aaiRuns = 0
  /\ aaiFresh = FALSE

AaiLocalsReset ==
  /\ aaiEp' = 0
  /\ aaiTid' = NoTid
  /\ aaiWaited' = 0
  /\ aaiErr' = "none"
  /\ aaiFresh' = FALSE

\* main, up to the first transcribe_episode call: load_progress, then either
\* --episode e or the batch list. A half-written progress file makes
\* json.loads raise and the process ends there.
AaiMain ==
  /\ aaiPc = "idle"
  /\ aaiRuns < MaxRuns
  /\ aaiRuns' = aaiRuns + 1
  /\ IF aaiFile.st = "partial"
     THEN UNCHANGED <<aaiProgress, aaiPc, aaiTodo>>
     ELSE /\ aaiProgress' = AaiLoadProgress(aaiFile)
          /\ aaiPc' = "loop"
          /\ \/ \E e \in Episodes : aaiTodo' = <<e>>
             \/ aaiTodo' = GetEpisodesToTranscribe(aaiOut)
  /\ UNCHANGED <<aaiFile, aaiEp, aaiTid, aaiWaited, aaiErr, aaiOut,
                 aaiSubmitted, aaiFaults, aaiFresh>>

\* the for loop of main (and the single call of --episode): next episode, or
\* the end of the process
AaiLoop ==
  /\ aaiPc = "loop"
  /\ IF aaiTodo = <<>>
     THEN /\ aaiPc' = "idle"
          /\ aaiProgress' = AaiEmptyProgress
          /\ aaiEp' = 0
          /\ UNCHANGED aaiTodo
     ELSE /\ aaiPc' = "entry"
          /\ aaiEp' = Head(aaiTodo)
          /\ aaiTodo' = Tail(aaiTodo)
          /\ UNCHANGED aaiProgress
  /\ aaiTid' = NoTid
  /\ aaiWaited' = 0
  /\ aaiErr' = "none"
  /\ aaiFresh' = FALSE
  /\ UNCHANGED <<aaiFile, aaiOut, aaiSubmitted, aaiRuns, aaiFaults>>

\* transcribe_episode, lines 110-118: an existing output file, or an episode
\* listed as completed, returns True with nothing done
AaiEntry ==
  /\ aaiPc = "entry"
  /\ IF aaiOut[aaiEp] # "absent" \/ aaiEp \in Range(aaiProgress.completed)
     THEN aaiPc' = "loop"
     ELSE aaiPc' = "try"
  /\ UNCHANGED <<aaiFile, aaiProgress, aaiTodo, aaiEp, aaiTid, aaiWaited, aaiErr,
                 aaiOut, aaiSubmitted, aaiRuns, aaiFaults, aaiFresh>>

\* the same step with the pending lookup forgotten: every call submits
AaiResume_Resubmit ==
  /\ aaiPc = "try"
  /\ \/ /\ aaiPc' = "submit"
        /\ UNCHANGED <<aaiErr, aaiFaults>>
     \/ /\ aaiFaults < MaxFaults
        /\ aaiFaults' = aaiFaults + 1
        /\ aaiPc' = "except"
        /\ aaiErr' = "request"
  /\ UNCHANGED <<aaiFile, aaiProgress, aaiTodo, aaiEp, aaiTid, aaiWaited,
                 aaiOut, aaiSubmitted, aaiRuns, aaiFresh>>

\* lines 122-127: a pending job id is taken from the ledger; otherwise the
\* audio URL is resolved with yt-dlp, which may fail
AaiResume ==
  /\ aaiPc = "try"
  /\ IF aaiEp \in DOMAIN aaiProgress.pending
     THEN /\ aaiTid' = aaiProgress.pending[aaiEp]
          /\ aaiPc' = "poll"
          /\ UNCHANGED <<aaiErr, aaiFaults>>
     ELSE /\ UNCHANGED aaiTid
          /\ \/ /\ aaiPc' = "submit"
                /\ UNCHANGED <<aaiErr, aaiFaults>>
             \/ /\ aaiFaults < MaxFaults
                /\ aaiFaults' = aaiFaults + 1
                /\ aaiPc' = "except"
                /\ aaiErr' = "request"
  /\ UNCHANGED <<aaiFile, aaiProgress, aaiTodo, aaiEp, aaiWaited, aaiOut,
                 aaiSubmitted, aaiRuns, aaiFresh>>

\* submit_transcription, line 130: the service creates a job and returns its
\* id, or the request raises
SubmitTranscription ==
  /\ aaiPc = "submit"
  /\ \/ /\ aaiSubmitted' = [aaiSubmitted EXCEPT ![aaiEp] = @ + 1]
        /\ aaiTid' = <<aaiEp, aaiSubmitted[aaiEp] + 1>>
        /\ aaiFresh' = TRUE
        /\ aaiPc' = "submitted"
        /\ UNCHANGED <<aaiErr, aaiFaults>>
     \/ /\ aaiFaults < MaxFaults
        /\ aaiFaults' = aaiFaults + 1
        /\ aaiErr' = "request"
        /\ aaiPc' = "except"
        /\ UNCHANGED <<aaiSubmitted, aaiTid, aaiFresh>>
  /\ UNCHANGED <<aaiFile, aaiProgress, aaiTodo, aaiEp, aaiWaited, aaiOut,
                 aaiRuns>>

\* the same step with the save left for later: polling starts at once
AaiSavePending_Unsaved ==
  /\ aaiPc = "submitted"
  /\ aaiProgress' = [aaiProgress EXCEPT
                       !.pending = DictSet(aaiProgress.pending, aaiEp, aaiTid)]
  /\ aaiPc' = "poll"
  /\ UNCHANGED <<aaiFile, aaiTodo, aaiEp, aaiTid, aaiWaited, aaiErr, aaiOut,
                 aaiSubmitted, aaiRuns, aaiFaults, aaiFresh>>

\* lines 133-134: the job id goes into progress["pending"] and save_progress
\* opens the progress file for writing, which truncates it
AaiSavePending ==
  /\ aaiPc = "submitted"
  /\ aaiProgress' = [aaiProgress EXCEPT
                       !.pending = DictSet(aaiProgress.pending, aaiEp, aaiTid)]
  /\ aaiFile' = FilePartial(AaiEmptyProgress)
  /\ aaiPc' = "save_pending"
  /\ UNCHANGED <<aaiTodo, aaiEp, aaiTid, aaiWaited, aaiErr, aaiOut,
                 aaiSubmitted, aaiRuns, aaiFaults, aaiFresh>>

\* save_progress, line 105, second half: the JSON text reaches the file.
\* After the pending save the call goes on to poll; after the two others it
\* returns to main's loop.
AaiSaveProgress ==
  /\ aaiPc \in {"save_pending", "save_done", "save_failed"}
  /\ aaiFile' = FileOk(aaiProgress)
  /\ aaiPc' = IF aaiPc = "save_pending" THEN "poll" ELSE "loop"
  /\ UNCHANGED <<aaiProgress, aaiTodo, aaiEp, aaiTid, aaiWaited, aaiErr,
                 aaiOut, aaiSubmitted, aaiRuns, aaiFaults, aaiFresh>>

\* poll_transcription, lines 56-68: one status request inside the ceiling.
\* "completed" returns the result, which transcribe_episode formats and
\* writes to output_file (lines 140-147), whatever its length. A request that
\* raises, a status "error" and a job still in progress (which may run into
\* the ceiling) draw on the fault budget. The time waited is a local of the
\* call and is gone when it returns or raises.
PollTranscription ==
  /\ aaiPc = "poll"
  /\ aaiWaited < MaxWait
  /\ \/ /\ aaiFaults < MaxFaults
        /\ aaiFaults' = aaiFaults + 1
        /\ aaiPc' = "except"
        /\ aaiErr' \in {"request", "error"}
        /\ aaiWaited' = 0
        /\ UNCHANGED aaiOut
     \/ /\ aaiFaults < MaxFaults
        /\ aaiWaited' = aaiWaited + PollSleep
        /\ UNCHANGED <<aaiPc, aaiErr, aaiOut, aaiFaults>>
     \/ \E len \in {"short", "long"} :
          /\ aaiOut' = [aaiOut EXCEPT ![aaiEp] = len]
          /\ aaiPc' = "written"
          /\ aaiWaited' = 0
          /\ UNCHANGED <<aaiErr, aaiFaults>>
  /\ UNCHANGED <<aaiFile, aaiProgress, aaiTodo, aaiEp, aaiTid, aaiSubmitted,
                 aaiRuns, aaiFresh>>

\* poll_transcription with line 70 left out and the clock started again
\* when the ceiling is passed
PollTimeout_StartsOver ==
  /\ aaiPc = "poll"
  /\ aaiWaited >= MaxWait
  /\ aaiWaited' = 0
  /\ UNCHANGED <<aaiFile, aaiProgress, aaiTodo, aaiEp, aaiTid, aaiOut,
                 aaiSubmitted, aaiRuns, aaiFresh, aaiPc, aaiErr, aaiFaults>>

\* poll_transcription, line 70: the ceiling is passed
PollTimeout ==
  /\ aaiPc = "poll"
  /\ aaiWaited >= MaxWait
  /\ aaiFaults' = aaiFaults + 1
  /\ aaiPc' = "except"
  /\ aaiErr' = "timeout"
  /\ aaiWaited' = 0
  /\ UNCHANGED <<aaiFile, aaiProgress, aaiTodo, aaiEp, aaiTid, aaiOut,
                 aaiSubmitted, aaiRuns, aaiFresh>>

\* lines 150 and 152 without line 151: the pending id is kept
AaiCompleted_PendingKept ==
  /\ aaiPc = "written"
  /\ aaiProgress' = [aaiProgress EXCEPT !.completed = Append(@, aaiEp)]
  /\ aaiFile' = FilePartial(AaiEmptyProgress)
  /\ aaiPc' = "save_done"
  /\ UNCHANGED <<aaiTodo, aaiEp, aaiTid, aaiWaited, aaiErr, aaiOut,
                 aaiSubmitted, aaiRuns, aaiFaults, aaiFresh>>

\* lines 150-152: completed, no longer pending, and the save opens the file
AaiCompleted ==
  /\ aaiPc = "written"
  /\ aaiProgress' = [aaiProgress EXCEPT
                       !.completed = Append(@, aaiEp),
                       !.pending = DictPop(@, aaiEp)]
  /\ aaiFile' = FilePartial(AaiEmptyProgress)
  /\ aaiPc' = "save_done"
  /\ UNCHANGED <<aaiTodo, aaiEp, aaiTid, aaiWaited, aaiErr, aaiOut,
                 aaiSubmitted, aaiRuns, aaiFaults, aaiFresh>>

\* lines 157-161: whatever was raised, the episode is listed as failed, its
\* pending id is dropped, and the save opens the file
AaiExcept ==
  /\ aaiPc = "except"
  /\ aaiProgress' = [aaiProgress EXCEPT
                       !.failed = Append(@, [episode |-> aaiEp, error |-> aaiErr]),
                       !.pending = DictPop(@, aaiEp)]
  /\ aaiFile' = FilePartial(AaiEmptyProgress)
  /\ aaiPc' = "save_failed"
  /\ UNCHANGED <<aaiTodo, aaiEp, aaiTid, aaiWaited, aaiErr, aaiOut,
                 aaiSubmitted, aaiRuns, aaiFaults, aaiFresh>>

\* the process is killed: what it held in memory is gone
AaiKill ==
  /\ aaiPc # "idle"
  /\ aaiPc' = "idle"
  /\ aaiProgress' = AaiEmptyProgress
  /\ aaiTodo' = <<>>
  /\ AaiLocalsReset
  /\ UNCHANGED <<aaiFile, aaiOut, aaiSubmitted, aaiRuns, aaiFaults>>

\* ======================================================================
\* scripts/sync_transcripts_to_drive.py
\*
\* matched (MATCHED_FILE) is the list of entries 1..NumMatched; entry m is
\* episode m and its Drive folder m.
\* ======================================================================
DrvEmptyProgress ==
  [synced |-> <<>>, skipped |-> <<>>, errors |-> <<>>, last_index |-> 0]

\* load_progress: the file's content, or the empty ledger when there is none
DrvLoadProgress(file) == IF file.st = "ok" THEN file.val ELSE DrvEmptyProgress

\* what a Notion page can hold for the script: no page for the episode, a
\* page with no transcript section, one with a transcript under 100
\* characters, one with a transcript of 100 characters or more
DrvPageKinds == {"missing", "none", "short", "long"}

DrvInit ==
  /\ drvFile = FileAbsent(DrvEmptyProgress)
  /\ drvProgress = DrvEmptyProgress
  /\ drvPc = "idle"
  /\ drvI = 0
  /\ drvEnd = 0
  /\ drvPages \in [Matched -> DrvPageKinds]
  /\ drvDocs = [f \in Matched |-> <<>>]
  /\ drvRuns = 0
  /\ drvFaults = 0

\* the script is not part of the run
DrvOff ==
  /\ drvFile = FileAbsent(DrvEmptyProgress)
  /\ drvProgress = DrvEmptyProgress
  /\ drvPc = "idle"
  /\ drvI = 0
  /\ drvEnd = 0
  /\ drvPages = [m \in Matched |-> "long"]
  /\ drvDocs = [f \in Matched |-> <<>>]
  /\ drvRuns = 0
  /\ drvFaults = 0

\* main, lines 131-148: with --resume the saved progress and its last_index,
\* otherwise a fresh ledger from index 0; --limit cuts the range. A
\* half-written progress file makes json.load raise.
DrvStart(resume) ==
  /\ drvPc = "idle"
  /\ drvRuns < MaxRuns
  /\ drvRuns' = drvRuns + 1
  /\ \E limit \in 0..NumMatched :
       IF resume /\ drvFile.st = "partial"
       THEN UNCHANGED <<drvProgress, drvPc, drvI, drvEnd>>
       ELSE LET progress == IF resume THEN DrvLoadProgress(drvFile)
                            ELSE DrvEmptyProgress
                start == IF resume THEN progress.last_index ELSE 0
            IN /\ drvProgress' = progress
               /\ drvI' = start
               /\ drvEnd' = IF limit # 0 /\ start + limit < NumMatched
                            THEN start + limit ELSE NumMatched
               /\ drvPc' = "loop"
  /\ UNCHANGED <<drvFile, drvPages, drvDocs, drvFaults>>

\* the script started with or without --resume
DrvMain == \E resume \in BOOLEAN : DrvStart(resume)

\* for i in range(start_index, end_index), and the end of the process
DrvLoop ==
  /\ drvPc = "loop"
  /\ IF drvI < drvEnd
     THEN /\ drvPc' = "check"
          /\ UNCHANGED <<drvProgress, drvI, drvEnd>>
     ELSE /\ drvPc' = "idle"
          /\ drvProgress' = DrvEmptyProgress
          /\ drvI' = 0
          /\ drvEnd' = 0
  /\ UNCHANGED <<drvFile, drvPages, drvDocs, drvRuns, drvFaults>>

\* progress[list].append(ep_num) with last_index left as it is
DrvRecord_IndexKept(progress, list, i) ==
  [progress EXCEPT ![list] = Append(@, i + 1)]

\* progress[list].append(ep_num); progress["last_index"] = i + 1
DrvRecord(progress, list, i) ==
  [progress EXCEPT ![list] = Append(@, i + 1), !.last_index = i + 1]

\* check_existing_transcript_doc, lines 108-119: the first document of the
\* folder whose name contains 'Transcript', None when there is none and
\* None when the request fails
CheckExistingTranscriptDoc(docs, failed) == ~failed /\ docs # <<>>

\* lines 158-165: the existence check; a document found is recorded as
\* skipped
DrvCheck ==
  /\ drvPc = "check"
  /\ \E failed \in BOOLEAN :
       /\ failed => drvFaults < MaxFaults
       /\ drvFaults' = IF failed THEN drvFaults + 1 ELSE drvFaults
       /\ IF CheckExistingTranscriptDoc(drvDocs[drvI + 1], failed)
          THEN /\ drvProgress' = DrvRecord(drvProgress, "skipped", drvI)
               /\ drvPc' = "save"
          ELSE /\ drvPc' = "notion"
               /\ UNCHANGED drvProgress
  /\ UNCHANGED <<drvFile, drvI, drvEnd, drvPages, drvDocs, drvRuns>>

\* lines 168-205: the page query, the transcript read from the page and the
\* document creation, with the outcome recorded in progress.
\*  - the query raises: errors
\*  - no page, no transcript (also when reading the blocks fails, which
\*    get_notion_transcript turns into None), or one under 100 characters:
\*    skipped
\*  - create_google_doc: the creation fails (no document), or the document
\*    is created and the text insertion fails (an empty document stays in
\*    the folder): errors; both succeed: synced
DrvProcess ==
  /\ drvPc = "notion"
  /\ LET m == drvI + 1
         fault == /\ drvFaults < MaxFaults
                  /\ drvFaults' = drvFaults + 1
         nofault == UNCHANGED drvFaults
     IN \/ /\ fault
           /\ drvProgress' = DrvRecord(drvProgress, "errors", drvI)
           /\ UNCHANGED drvDocs
        \/ /\ drvPages[m] \in {"missing", "none", "short"}
           /\ nofault
           /\ drvProgress' = DrvRecord(drvProgress, "skipped", drvI)
           /\ UNCHANGED drvDocs
        \/ /\ drvPages[m] \in {"none", "short", "long"}
           /\ fault
           /\ drvProgress' = DrvRecord(drvProgress, "skipped", drvI)
           /\ UNCHANGED drvDocs
        \/ /\ drvPages[m] = "long"
           /\ fault
           /\ drvProgress' = DrvRecord(drvProgress, "errors", drvI)
           /\ UNCHANGED drvDocs
        \/ /\ drvPages[m] = "long"
           /\ fault
           /\ drvDocs' = [drvDocs EXCEPT ![m] = Append(@, "empty")]
           /\ drvProgress' = DrvRecord(drvProgress, "errors", drvI)
        \/ /\ drvPages[m] = "long"
           /\ nofault
           /\ drvDocs' = [drvDocs EXCEPT ![m] = Append(@, "full")]
           /\ drvProgress' = DrvRecord(drvProgress, "synced", drvI)
  /\ drvPc' = "save"
  /\ UNCHANGED <<drvFile, drvI, drvEnd, drvPages, drvRuns>>

\* save_progress, line 127: open(PROGRESS_FILE, "w") truncates the file
DrvSaveOpen ==
  /\ drvPc = "save"
  /\ drvFile' = FilePartial(DrvEmptyProgress)
  /\ drvPc' = "dump"
  /\ UNCHANGED <<drvProgress, drvI, drvEnd, drvPages, drvDocs, drvRuns,
                 drvFaults>>

\* save_progress, line 128: json.dump writes the ledger; the loop moves on
DrvSaveProgress ==
  /\ drvPc = "dump"
  /\ drvFile' = FileOk(drvProgress)
  /\ drvI' = drvI + 1
  /\ drvPc' = "loop"
  /\ UNCHANGED <<drvProgress, drvEnd, drvPages, drvDocs, drvRuns, drvFaults>>

\* the process is killed
DrvKill ==
  /\ drvPc # "idle"
  /\ drvPc' = "idle"
  /\ drvProgress' = DrvEmptyProgress
  /\ drvI' = 0
  /\ drvEnd' = 0
  /\ UNCHANGED <<drvFile, drvPages, drvDocs, drvRuns, drvFaults>>

\* ======================================================================
\* scripts/download_transcripts.py
\*
\* drive_search returns the files 1..NumSrt, all of which pass the episode
\* filter of lines 113-115; dlGuest[f] is what match_guest makes of the name
\* of file f against the catalog.
\* ======================================================================
DlInit ==
  /\ dlGuest \in [SrtFiles -> 0..NumEpisodes]
  /\ dlSrt = {}
  /\ dlTxt = {}
  /\ dlSrtWrites = [f \in SrtFiles |-> 0]
  /\ dlTxtWrites = [f \in SrtFiles |-> 0]
  /\ dlMapping = <<>>
  /\ dlMappingFile = FileAbsent(<<>>)
  /\ dlPc = "idle"
  /\ dlTodo = <<>>
  /\ dlCur = 0
  /\ dlRuns = 0
  /\ dlFaults = 0
  /\ dlFilepath = [f \in SrtFiles |-> "unset"]

\* the script is not part of the run
DlOff ==
  /\ dlGuest = [f \in SrtFiles |-> 0]
  /\ dlSrt = {}
  /\ dlTxt = {}
  /\ dlSrtWrites = [f \in SrtFiles |-> 0]
  /\ dlTxtWrites = [f \in SrtFiles |-> 0]
  /\ dlMapping = <<>>
  /\ dlMappingFile = FileAbsent(<<>>)
  /\ dlPc = "idle"
  /\ dlTodo = <<>>
  /\ dlCur = 0
  /\ dlRuns = 0
  /\ dlFaults = 0
  /\ dlFilepath = [f \in SrtFiles |-> "unset"]

\* main, lines 98-121: the catalog, the token and the Drive search, none of
\* them guarded: a failing search ends the process
DlMain ==
  /\ dlPc = "idle"
  /\ dlRuns < MaxRuns
  /\ dlRuns' = dlRuns + 1
  /\ \/ /\ dlTodo' = Ascending(SrtFiles)
        /\ dlPc' = "loop"
        /\ UNCHANGED dlFaults
     \/ /\ dlFaults < MaxFaults
        /\ dlFaults' = dlFaults + 1
        /\ UNCHANGED <<dlTodo, dlPc>>
  /\ dlMapping' = <<>>
  /\ dlFilepath' = [f \in SrtFiles |-> "unset"]
  /\ UNCHANGED <<dlGuest, dlSrt, dlTxt, dlSrtWrites, dlTxtWrites,
                 dlMappingFile, dlCur>>

\* lines 124-126 and 153-154: the next file; one match_guest accepts goes on
\* to the download, the others are passed over. After the last file,
\* line 158 opens mapping.json for writing.
DlLoop ==
  /\ dlPc = "loop"
  /\ IF dlTodo = <<>>
     THEN /\ dlMappingFile' = FilePartial(<<>>)
          /\ dlPc' = "dump"
          /\ dlCur' = 0
          /\ UNCHANGED dlTodo
     ELSE /\ dlCur' = Head(dlTodo)
          /\ dlTodo' = Tail(dlTodo)
          /\ dlPc' = IF dlGuest[Head(dlTodo)] # 0 THEN "download" ELSE "loop"
          /\ UNCHANGED dlMappingFile
  /\ UNCHANGED <<dlGuest, dlSrt, dlTxt, dlSrtWrites, dlTxtWrites, dlMapping,
                 dlRuns, dlFaults, dlFilepath>>

\* the same step with the test of line 132 left out: main goes on to the
\* conversion and the mapping entry whatever download_file returned
DownloadFile_NoneMapped ==
  /\ dlPc = "download"
  /\ \/ /\ dlSrt' = dlSrt \cup {dlCur}
        /\ dlSrtWrites' = [dlSrtWrites EXCEPT ![dlCur] = @ + 1]
        /\ dlFilepath' = [dlFilepath EXCEPT ![dlCur] = "path"]
        /\ dlPc' = "convert"
        /\ UNCHANGED dlFaults
     \/ /\ dlFaults < MaxFaults
        /\ dlFaults' = dlFaults + 1
        /\ dlFilepath' = [dlFilepath EXCEPT ![dlCur] = "None"]
        /\ dlPc' = "convert"
        /\ UNCHANGED <<dlSrt, dlSrtWrites>>
  /\ UNCHANGED <<dlGuest, dlTxt, dlTxtWrites, dlMapping, dlMappingFile,
                 dlTodo, dlCur, dlRuns>>

\* download_file, lines 28-43: the request, then open(filepath, 'wb') and the
\* write, whether or not the path exists; a failure returns None and main
\* goes to the next file
DownloadFile ==
  /\ dlPc = "download"
  /\ \/ /\ dlSrt' = dlSrt \cup {dlCur}
        /\ dlSrtWrites' = [dlSrtWrites EXCEPT ![dlCur] = @ + 1]
        /\ dlFilepath' = [dlFilepath EXCEPT ![dlCur] = "path"]
        /\ dlPc' = "convert"
        /\ UNCHANGED dlFaults
     \/ /\ dlFaults < MaxFaults
        /\ dlFaults' = dlFaults + 1
        /\ dlFilepath' = [dlFilepath EXCEPT ![dlCur] = "None"]
        /\ dlPc' = "loop"
        /\ UNCHANGED <<dlSrt, dlSrtWrites>>
  /\ UNCHANGED <<dlGuest, dlTxt, dlTxtWrites, dlMapping, dlMappingFile,
                 dlTodo, dlCur, dlRuns>>

\* lines 135-152: the text version is written to text_path, whether or not
\* the path exists, and the file is added to mapping
DlConvert ==
  /\ dlPc = "convert"
  /\ dlTxt' = dlTxt \cup {dlCur}
  /\ dlTxtWrites' = [dlTxtWrites EXCEPT ![dlCur] = @ + 1]
  /\ dlMapping' = Append(dlMapping, [episode |-> dlGuest[dlCur], srt_file |-> dlCur])
  /\ dlPc' = "loop"
  /\ UNCHANGED <<dlGuest, dlSrt, dlSrtWrites, dlMappingFile, dlTodo, dlCur,
                 dlRuns, dlFaults, dlFilepath>>

\* line 159: json.dump(mapping) into mapping.json, and the process ends
DlSaveMapping ==
  /\ dlPc = "dump"
  /\ dlMappingFile' = FileOk(dlMapping)
  /\ dlPc' = "idle"
  /\ dlMapping' = <<>>
  /\ UNCHANGED <<dlGuest, dlSrt, dlTxt, dlSrtWrites, dlTxtWrites, dlTodo,
                 dlCur, dlRuns, dlFaults, dlFilepath>>

\* the process is killed
DlKill ==
  /\ dlPc # "idle"
  /\ dlPc' = "idle"
  /\ dlMapping' = <<>>
  /\ dlTodo' = <<>>
  /\ dlCur' = 0
  /\ UNCHANGED <<dlGuest, dlSrt, dlTxt, dlSrtWrites, dlTxtWrites,
                 dlMappingFile, dlRuns, dlFaults, dlFilepath>>

\* ======================================================================
\* scripts/pull_youtube_captions.py
\*
\* The catalog (js/episodes.js) lists the videos 1..NumVideos, video v being
\* episode v. capSource[v] is what YouTube holds for v: no captions, or a
\* caption track whose text is under 100 characters ("short") or not
\* ("long"). TRANSCRIPTS_DIR holds the caption files capVtt and their text
\* versions capTxt.
\* ======================================================================
CapEmptyProgress == [completed |-> <<>>, failed |-> <<>>, no_captions |-> <<>>]

\* load_progress: the file's content, or the empty ledger when there is none
CapLoadProgress(file) == IF file.st = "ok" THEN file.val ELSE CapEmptyProgress

\* main, lines 122-123, with the failed list left out of the filter
CapToProcess_RetryFailed(progress) ==
  LET completed_set == Range(progress.completed) \cup Range(progress.no_captions)
  IN Ascending({v \in Videos : v \notin completed_set})

\* main, lines 119-123: the videos of the catalog listed in none of the three
\* categories, in catalog order
CapToProcess(progress) ==
  LET completed_set == Range(progress.completed) \cup Range(progress.failed)
                         \cup Range(progress.no_captions)
  IN Ascending({v \in Videos : v \notin completed_set})

\* the number of outcomes a caption ledger lists
CapTotal(progress) ==
  Len(progress.completed) + Len(progress.failed) + Len(progress.no_captions)

\* no process has run and no file has been written
CapIdle ==
  /\ capTxt = {}
  /\ capFile = FileAbsent(CapEmptyProgress)
  /\ capProgress = CapEmptyProgress
  /\ capPc = "idle"
  /\ capTodo = <<>>
  /\ capI = 0
  /\ capResult = "none"
  /\ capRuns = 0
  /\ capFaults = 0
  /\ capDownloads = 0
  /\ capTxtWrites = 0
  /\ capFirst = CapEmptyProgress
  /\ capTimedOut = {}

CapInit ==
  /\ capSource \in [Videos -> {"none", "short", "long"}]
  /\ capVtt = [v \in Videos |-> "absent"]
  /\ CapIdle

\* the script is not part of the run and has left no file
CapOff ==
  /\ capSource = [v \in Videos |-> "long"]
  /\ capVtt = [v \in Videos |-> "absent"]
  /\ CapIdle

\* the script is not part of the run; TRANSCRIPTS_DIR holds the caption
\* files of earlier downloads, one more than the sync script's save cadence
CapFiles ==
  /\ capSource = [v \in Videos |-> "long"]
  /\ capVtt = [f \in VttFiles |-> "long"]
  /\ CapIdle

\* main, lines 113-129. A half-written progress file makes json.load raise.
CapMain ==
  /\ capPc = "idle"
  /\ capRuns < MaxRuns
  /\ capRuns' = capRuns + 1
  /\ capDownloads' = 0
  /\ capTxtWrites' = 0
  /\ IF capFile.st = "partial"
     THEN UNCHANGED <<capProgress, capPc, capTodo, capI>>
     ELSE /\ capProgress' = CapLoadProgress(capFile)
          /\ capTodo' = CapToProcess(CapLoadProgress(capFile))
          /\ capI' = 0
          /\ capPc' = "loop"
  /\ capResult' = "none"
  /\ UNCHANGED <<capSource, capVtt, capTxt, capFile, capFaults, capFirst,
                 capTimedOut>>

\* lines 137-142, with a video without captions listed as failed
CapCategory_NoCaptionsFailed(result) ==
  IF result \in {"success", "exists"} THEN "completed" ELSE "failed"

\* lines 137-142: the ledger category of a download_captions result
CapCategory(result) ==
  IF result \in {"success", "exists"} THEN "completed"
  ELSE IF result = "no_captions" THEN "no_captions"
  ELSE "failed"

\* lines 131-142, one iteration: download_captions (lines 35-69) and the
\* recording of its result. An existing .en.vtt is "exists" with yt-dlp not
\* run; otherwise yt-dlp writes the caption file ("success"), reports that
\* there are no captions, fails, or is stopped after 60 seconds ("timeout").
CapDownload ==
  /\ capPc = "loop"
  /\ capI < Len(capTodo)
  /\ LET v == capTodo[capI + 1]
     IN \E result \in {"exists", "success", "no_captions", "failed", "timeout"} :
          /\ result = "exists" <=> capVtt[v] # "absent"
          /\ result = "success" => capSource[v] # "none"
          /\ result = "no_captions" => capSource[v] = "none"
          /\ IF result \in {"failed", "timeout"}
             THEN capFaults < MaxFaults /\ capFaults' = capFaults + 1
             ELSE UNCHANGED capFaults
          /\ capVtt' = IF result = "success"
                       THEN [capVtt EXCEPT ![v] = capSource[v]] ELSE capVtt
          /\ capDownloads' = IF result = "exists" THEN capDownloads
                             ELSE capDownloads + 1
          /\ capResult' = result
          /\ capProgress' = [capProgress EXCEPT ![CapCategory(result)] = Append(@, v)]
          /\ capTimedOut' = IF result = "timeout" THEN capTimedOut \cup {v}
                            ELSE capTimedOut \ {v}
  /\ capPc' = "cadence"
  /\ UNCHANGED <<capSource, capTxt, capFile, capTodo, capI, capRuns,
                 capTxtWrites, capFirst>>

\* download_captions, line 54, seen by another process: yt-dlp has created
\* the caption file under its name and written a first part of the captions,
\* 100 characters or more. How yt-dlp writes the file is not set by the
\* command of lines 44-51: CapDownload is the run whose file appears whole
\* (written under another name and renamed), this step and the next are the
\* run that writes it in place.
CapDownloadBegin ==
  /\ capPc = "loop"
  /\ capI < Len(capTodo)
  /\ LET v == capTodo[capI + 1]
     IN /\ capVtt[v] = "absent"
        /\ capSource[v] = "long"
        /\ capVtt' = [capVtt EXCEPT ![v] = "partial"]
  /\ capPc' = "ytdlp"
  /\ UNCHANGED <<capSource, capTxt, capFile, capProgress, capTodo, capI,
                 capResult, capRuns, capFaults, capDownloads, capTxtWrites,
                 capFirst, capTimedOut>>

\* download_captions, lines 54-66, and main, lines 137-142: yt-dlp writes
\* the rest of the file and ends ("success"), or is stopped at 60 seconds
\* with the file as it is ("timeout")
CapDownloadEnd ==
  /\ capPc = "ytdlp"
  /\ LET v == capTodo[capI + 1]
     IN \E result \in {"success", "timeout"} :
          /\ IF result = "timeout"
             THEN /\ capFaults < MaxFaults
                  /\ capFaults' = capFaults + 1
                  /\ UNCHANGED capVtt
             ELSE /\ capVtt' = [capVtt EXCEPT ![v] = capSource[v]]
                  /\ UNCHANGED capFaults
          /\ capDownloads' = capDownloads + 1
          /\ capResult' = result
          /\ capProgress' = [capProgress EXCEPT ![CapCategory(result)] = Append(@, v)]
          /\ capTimedOut' = IF result = "timeout" THEN capTimedOut \cup {v}
                            ELSE capTimedOut \ {v}
  /\ capPc' = "cadence"
  /\ UNCHANGED <<capSource, capTxt, capFile, capTodo, capI, capRuns,
                 capTxtWrites, capFirst>>

\* lines 144-147: every CapEvery-th iteration save_progress opens the file
CapCadence ==
  /\ capPc = "cadence"
  /\ IF (capI + 1) % CapEvery = 0
     THEN /\ capFile' = FilePartial(CapEmptyProgress)
          /\ capPc' = "dump"
          /\ UNCHANGED capI
     ELSE /\ capPc' = "loop"
          /\ capI' = capI + 1
          /\ UNCHANGED capFile
  /\ UNCHANGED <<capSource, capVtt, capTxt, capProgress, capTodo, capResult,
                 capRuns, capFaults, capDownloads, capTxtWrites, capFirst,
                 capTimedOut>>

\* line 149: after the loop save_progress opens the file
CapLoopEnd ==
  /\ capPc = "loop"
  /\ capI = Len(capTodo)
  /\ capFile' = FilePartial(CapEmptyProgress)
  /\ capPc' = "dump_final"
  /\ UNCHANGED <<capSource, capVtt, capTxt, capProgress, capTodo, capI,
                 capResult, capRuns, capFaults, capDownloads, capTxtWrites,
                 capFirst, capTimedOut>>

\* save_progress, line 33: json.dump writes the ledger. Inside the loop the
\* next iteration follows; after the loop, line 153 lists the .vtt files.
CapSaveProgress ==
  /\ capPc \in {"dump", "dump_final"}
  /\ capFile' = FileOk(capProgress)
  /\ IF capPc = "dump"
     THEN /\ capPc' = "loop"
          /\ capI' = capI + 1
          /\ UNCHANGED <<capTodo, capFirst>>
     ELSE /\ capPc' = "convert"
          /\ capTodo' = Ascending({v \in DOMAIN capVtt : capVtt[v] # "absent"})
          /\ capI' = 0
          /\ capFirst' = IF capRuns = 1 THEN capProgress ELSE capFirst
  /\ UNCHANGED <<capSource, capVtt, capTxt, capProgress, capResult, capRuns,
                 capFaults, capDownloads, capTxtWrites, capTimedOut>>

\* convert_vtt_to_txt, lines 71-110, for the next .vtt file: nothing when the
\* .txt exists, else the text is written to it. After the last file the
\* process ends.
CapConvert ==
  /\ capPc = "convert"
  /\ IF capI < Len(capTodo)
     THEN LET v == capTodo[capI + 1]
          IN /\ capTxt' = capTxt \cup {v}
             /\ capTxtWrites' = IF v \in capTxt THEN capTxtWrites
                                ELSE capTxtWrites + 1
             /\ capI' = capI + 1
             /\ UNCHANGED <<capPc, capTodo, capProgress>>
     ELSE /\ capPc' = "idle"
          /\ capTodo' = <<>>
          /\ capI' = 0
          /\ capProgress' = CapEmptyProgress
          /\ UNCHANGED <<capTxt, capTxtWrites>>
  /\ UNCHANGED <<capSource, capVtt, capFile, capResult, capRuns, capFaults,
                 capDownloads, capFirst, capTimedOut>>

\* the process is killed
CapKill ==
  /\ capPc # "idle"
  /\ capPc' = "idle"
  /\ capProgress' = CapEmptyProgress
  /\ capTodo' = <<>>
  /\ capI' = 0
  /\ capResult' = "none"
  /\ UNCHANGED <<capSource, capVtt, capTxt, capFile, capRuns, capFaults,
                 capDownloads, capTxtWrites, capFirst, capTimedOut>>

\* ======================================================================
\* scripts/sync_youtube_transcripts_to_notion.py
\*
\* The page of episode e in the Notion database is ytsPages[e]: kind
\* "missing" (no page), "plain", or "lead" (a page whose first 20 child
\* blocks are other content), with the number of transcript sections
\* (a heading_2 holding 'Transcript' and its paragraphs) appended to it.
\* ======================================================================
YtsEmptyData == [synced |-> <<>>, failed |-> <<>>, skipped |-> <<>>]

\* load_synced: the file's content, or the empty ledger when there is none
YtsLoadSynced(file) == IF file.st = "ok" THEN file.val ELSE YtsEmptyData

\* the number of outcomes a sync ledger lists
YtsTotal(data) == Len(data.synced) + Len(data.failed) + Len(data.skipped)

\* main, lines 169-183: the .vtt files whose episode number is in none of the
\* three lists
YtsToProcess(data, vtt) ==
  LET synced_set == Range(data.synced) \cup Range(data.failed)
                      \cup Range(data.skipped)
  IN Ascending({e \in DOMAIN vtt : vtt[e] # "absent" /\ e \notin synced_set})

\* find_episode_page, lines 37-51: the page id, None when the query fails or
\* returns nothing
FindEpisodePage(page, failed) == ~failed /\ page.kind # "missing"

\* check_page_has_transcript, lines 53-62: a transcript heading among the
\* first 20 child blocks; False when there is none there and False when the
\* request fails
CheckPageHasTranscript(page, failed) ==
  ~failed /\ page.kind = "plain" /\ page.sections >= 1

YtsPagesOf(kinds) ==
  [e \in DOMAIN kinds |->
     [kind |-> IF kinds[e] = "missing" THEN "missing"
               ELSE IF kinds[e] = "lead" THEN "lead" ELSE "plain",
      sections |-> IF kinds[e] = "has" THEN 1 ELSE 0]]

\* no process has run and no file has been written
YtsIdle ==
  /\ ytsFile = FileAbsent(YtsEmptyData)
  /\ ytsData = YtsEmptyData
  /\ ytsPc = "idle"
  /\ ytsTodo = <<>>
  /\ ytsI = 0
  /\ ytsRuns = 0
  /\ ytsFaults = 0
  /\ ytsAppends = 0
  /\ ytsFirst = YtsEmptyData

YtsInit ==
  /\ ytsPages \in {YtsPagesOf(k) : k \in [Videos -> {"missing", "empty", "has"}]}
  /\ YtsIdle

\* the pages of the episodes of CapFiles: each with or without a transcript
\* section, at most one of them with 20 blocks of other content first
YtsInitFiles ==
  /\ \E k \in [VttFiles -> {"empty", "has", "lead"}] :
        /\ Cardinality({f \in VttFiles : k[f] = "lead"}) <= 1
        /\ ytsPages = YtsPagesOf(k)
  /\ YtsIdle

\* the script is not part of the run
YtsOff ==
  /\ ytsPages = YtsPagesOf([v \in Videos |-> "empty"])
  /\ YtsIdle

\* main, lines 165-186. A half-written progress file makes json.load raise.
YtsMain ==
  /\ ytsPc = "idle"
  /\ ytsRuns < MaxRuns
  /\ ytsRuns' = ytsRuns + 1
  /\ ytsAppends' = 0
  /\ IF ytsFile.st = "partial"
     THEN UNCHANGED <<ytsData, ytsPc, ytsTodo, ytsI>>
     ELSE /\ ytsData' = YtsLoadSynced(ytsFile)
          /\ ytsTodo' = YtsToProcess(YtsLoadSynced(ytsFile), capVtt)
          /\ ytsI' = 0
          /\ ytsPc' = "loop"
  /\ UNCHANGED <<ytsPages, ytsFile, ytsFaults, ytsFirst>>

\* lines 188-228, one iteration up to the recording of its outcome:
\*   the file cannot be read: failed, continue
\*   the text is under 100 characters: skipped, continue
\*   no page is found: failed, continue
\*   the page is seen to hold a transcript: skipped, continue
\*   add_transcript_to_page appends a section: synced, or failed when the
\*   request fails
\* The four continue statements go to the next iteration at once; the two
\* other outcomes reach the save of line 231.
YtsProcess ==
  /\ ytsPc = "loop"
  /\ ytsI < Len(ytsTodo)
  /\ LET ep == ytsTodo[ytsI + 1]
         page == ytsPages[ep]
     IN \E readErr, findErr, checkErr, addErr \in BOOLEAN :
          LET read == ~readErr /\ capVtt[ep] \in {"long", "partial"}
              found == read /\ FindEpisodePage(page, findErr)
              has == found /\ CheckPageHasTranscript(page, checkErr)
              adds == found /\ ~has
              faults == (IF readErr THEN 1 ELSE 0) + (IF findErr THEN 1 ELSE 0)
                          + (IF checkErr THEN 1 ELSE 0) + (IF addErr THEN 1 ELSE 0)
              outcome == IF readErr THEN "failed"
                         ELSE IF ~read THEN "skipped"
                         ELSE IF ~found THEN "failed"
                         ELSE IF has THEN "skipped"
                         ELSE IF addErr THEN "failed"
                         ELSE "synced"
          IN /\ findErr => read
             /\ checkErr => found
             /\ addErr => adds
             /\ ytsFaults + faults <= MaxFaults
             /\ ytsFaults' = ytsFaults + faults
             /\ ytsData' = [ytsData EXCEPT ![outcome] = Append(@, ep)]
             /\ ytsPages' = IF outcome = "synced"
                            THEN [ytsPages EXCEPT ![ep].sections = @ + 1]
                            ELSE ytsPages
             /\ ytsAppends' = IF adds THEN ytsAppends + 1 ELSE ytsAppends
             /\ IF adds
                THEN /\ ytsPc' = "cadence"
                     /\ UNCHANGED ytsI
                ELSE /\ ytsPc' = "loop"
                     /\ ytsI' = ytsI + 1
  /\ UNCHANGED <<ytsFile, ytsTodo, ytsRuns, ytsFirst>>

\* lines 230-233: every YtsEvery-th iteration save_synced opens the file
YtsCadence ==
  /\ ytsPc = "cadence"
  /\ IF (ytsI + 1) % YtsEvery = 0
     THEN /\ ytsFile' = FilePartial(YtsEmptyData)
          /\ ytsPc' = "dump"
          /\ UNCHANGED ytsI
     ELSE /\ ytsPc' = "loop"
          /\ ytsI' = ytsI + 1
          /\ UNCHANGED ytsFile
  /\ UNCHANGED <<ytsPages, ytsData, ytsTodo, ytsRuns, ytsFaults, ytsAppends,
                 ytsFirst>>

\* line 235: after the loop save_synced opens the file
YtsLoopEnd ==
  /\ ytsPc = "loop"
  /\ ytsI = Len(ytsTodo)
  /\ ytsFile' = FilePartial(YtsEmptyData)
  /\ ytsPc' = "dump_final"
  /\ UNCHANGED <<ytsPages, ytsData, ytsTodo, ytsI, ytsRuns, ytsFaults,
                 ytsAppends, ytsFirst>>

\* save_synced, line 134: json.dump writes the ledger. Inside the loop the
\* next iteration follows; after the loop the process ends.
YtsSaveSynced ==
  /\ ytsPc \in {"dump", "dump_final"}
  /\ ytsFile' = FileOk(ytsData)
  /\ IF ytsPc = "dump"
     THEN /\ ytsPc' = "loop"
          /\ ytsI' = ytsI + 1
          /\ UNCHANGED <<ytsData, ytsTodo, ytsFirst>>
     ELSE /\ ytsPc' = "idle"
          /\ ytsData' = YtsEmptyData
          /\ ytsTodo' = <<>>
          /\ ytsI' = 0
          /\ ytsFirst' = IF ytsRuns = 1 THEN ytsData ELSE ytsFirst
  /\ UNCHANGED <<ytsPages, ytsRuns, ytsFaults, ytsAppends>>

\* the process is killed
YtsKill ==
  /\ ytsPc # "idle"
  /\ ytsPc' = "idle"
  /\ ytsData' = YtsEmptyData
  /\ ytsTodo' = <<>>
  /\ ytsI' = 0
  /\ UNCHANGED <<ytsPages, ytsFile, ytsRuns, ytsFaults, ytsAppends, ytsFirst>>

\* ======================================================================
\* scripts/sync_transcripts_to_notion.py
\*
\* mapping.json lists one entry per episode of Videos; stnText[e] is the
\* file at the entry's text_path: "absent", or a text under 100 characters
\* ("short") or not ("long"). The pages are those of ytsPages: both scripts
\* write to the same database (DB_ID).
\* ======================================================================
StnIdle ==
  /\ stnPc = "idle"
  /\ stnTodo = <<>>
  /\ stnEp = 0
  /\ stnSynced = 0
  /\ stnFailed = 0
  /\ stnRuns = 0
  /\ stnFaults = 0

StnInit ==
  /\ stnText \in [Videos -> {"absent", "short", "long"}]
  /\ StnIdle

\* the script is not part of the run
StnOff ==
  /\ stnText = [v \in Videos |-> "absent"]
  /\ StnIdle

\* main, lines 117-133: the mapping by episode, highest episode first
StnMain ==
  /\ stnPc \in {"idle", "crashed"}
  /\ stnRuns < MaxRuns
  /\ stnRuns' = stnRuns + 1
  /\ stnTodo' = Descending(DOMAIN stnText)
  /\ stnEp' = 0
  /\ stnSynced' = 0
  /\ stnFailed' = 0
  /\ stnPc' = "loop"
  /\ UNCHANGED <<stnText, stnFaults, ytsPages>>

\* line 133: the next entry, or lines 170-171 and the end of the process
StnLoop ==
  /\ stnPc = "loop"
  /\ IF stnTodo = <<>>
     THEN /\ stnPc' = "idle"
          /\ stnEp' = 0
          /\ UNCHANGED stnTodo
     ELSE /\ stnPc' = "item"
          /\ stnEp' = Head(stnTodo)
          /\ stnTodo' = Tail(stnTodo)
  /\ UNCHANGED <<stnText, stnSynced, stnFailed, stnRuns, stnFaults, ytsPages>>

\* notion_request, lines 33-38: what a failing request does to its caller.
\* An HTTPError is caught and None returned; any other exception of urlopen
\* (URLError, a timeout after 60 seconds) is not caught.
StnRequestOutcomes == {"ok", "http", "network"}

\* lines 134-168, one entry:
\*   no text file, or a text under 100 characters: failed, continue
\*   find_episode_page returns None (HTTPError or no page): failed, continue
\*   add_transcript_to_page, with no look at the page's content: synced
\*   when the request returns, failed when it is answered by an HTTPError
\* A request that raises anything but HTTPError raises through
\* find_episode_page or add_transcript_to_page and through main, which has
\* no try statement: the process ends with the entries left unprocessed.
StnProcess ==
  /\ stnPc = "item"
  /\ LET page == ytsPages[stnEp]
     IN \E find, add \in StnRequestOutcomes :
          LET reads == stnText[stnEp] = "long"
              finds == reads /\ find # "network"
              found == finds /\ FindEpisodePage(page, find = "http")
              faults == (IF find # "ok" THEN 1 ELSE 0)
                          + (IF add # "ok" THEN 1 ELSE 0)
              crashed == (reads /\ find = "network")
                           \/ (found /\ add = "network")
              synced == found /\ add = "ok"
          IN /\ find # "ok" => reads
             /\ add # "ok" => found
             /\ stnFaults + faults <= MaxFaults
             /\ stnFaults' = stnFaults + faults
             /\ ytsPages' = IF synced
                            THEN [ytsPages EXCEPT ![stnEp].sections = @ + 1]
                            ELSE ytsPages
             /\ stnSynced' = IF synced THEN stnSynced + 1 ELSE stnSynced
             /\ stnFailed' = IF ~synced /\ ~crashed THEN stnFailed + 1
                             ELSE stnFailed
             /\ stnPc' = IF crashed THEN "crashed" ELSE "loop"
  /\ UNCHANGED <<stnText, stnTodo, stnEp, stnRuns>>

\* ======================================================================
\* add_transcript_to_page of scripts/sync_youtube_transcripts_to_notion.py
\* and of scripts/sync_transcripts_to_notion.py
\*
\* A transcript text is the sequence of the lengths of its words
\* (transcript_text.split()); current_chunk is the sequence of the lengths
\* of the words in it, and a chunk of chunks the length of its text.
\* ======================================================================

\* the characters of the words of a chunk
RECURSIVE SumSeq(_)
SumSeq(s) == IF s = <<>> THEN 0 ELSE Head(s) + SumSeq(Tail(s))

\* len(' '.join(chunk))
JoinLen(chunk) ==
  IF chunk = <<>> THEN 0
  ELSE SumSeq(chunk) + Len(chunk) - 1

Paragraph(chunk) == [type |-> "paragraph", len |-> chunk, marker |-> FALSE]

\* the paragraph blocks of the first n chunks: chunks[:n]
Paragraphs(chunks, n) ==
  [k \in 1..(IF Len(chunks) < n THEN Len(chunks) ELSE n) |-> Paragraph(chunks[k])]

\* the "[... transcript truncated, N more paragraphs ...]" paragraph
TruncationMarker == [type |-> "paragraph", len |-> 0, marker |-> TRUE]

\* sync_youtube_transcripts_to_notion.py, lines 84-117: a divider, the
\* heading, the first YtsMaxChunks chunks and, when chunks are left, the
\* truncation marker
YtsBlocks(chunks) ==
  <<[type |-> "divider", len |-> 0, marker |-> FALSE],
    [type |-> "heading_2", len |-> 0, marker |-> FALSE]>>
    \o Paragraphs(chunks, YtsMaxChunks)
    \o (IF Len(chunks) > YtsMaxChunks THEN <<TruncationMarker>> ELSE <<>>)

\* sync_transcripts_to_notion.py, lines 76-94: the heading and the first
\* StnMaxChunks chunks
StnBlocks(chunks) ==
  <<[type |-> "heading_2", len |-> 0, marker |-> FALSE]>>
    \o Paragraphs(chunks, StnMaxChunks)

\* the texts the functions are applied to: up to MaxWords words of one
\* length, and every text of up to MaxMixed words, the lengths taken around
\* the chunk size, its half and the size limit of a block
WordLens ==
  {1, (ChunkMax \div 2) - 1, ChunkMax \div 2, ChunkMax - 1, ChunkMax,
   ChunkMax + 1, BlockCharLimit}

Texts ==
  {[k \in 1..n |-> l] : n \in 0..MaxWords, l \in WordLens}
    \cup UNION {[1..n -> WordLens] : n \in 0..MaxMixed}

ChkLocals ==
  /\ chkPc = "split"
  /\ chkI = 0
  /\ chkChunks = <<>>
  /\ chkCur = <<>>
  /\ chkLen = 0
  /\ chkYts = <<>>
  /\ chkStn = <<>>
  /\ chkParts = <<>>

ChkInit ==
  /\ chkText \in Texts
  /\ ChkLocals

\* the functions are not part of the run
ChkOff ==
  /\ chkText = <<>>
  /\ ChkLocals

\* lines 72-79 of the one, 64-71 of the other: the loop body for the next
\* word
ChunkWord ==
  /\ chkPc = "split"
  /\ chkI < Len(chkText)
  /\ LET word == chkText[chkI + 1]
     IN IF chkLen + word + 1 > ChunkMax
        THEN /\ chkChunks' = Append(chkChunks, JoinLen(chkCur))
             /\ chkParts' = Append(chkParts, chkCur)
             /\ chkCur' = <<word>>
             /\ chkLen' = word
        ELSE /\ chkCur' = Append(chkCur, word)
             /\ chkLen' = chkLen + word + 1
             /\ UNCHANGED <<chkChunks, chkParts>>
  /\ chkI' = chkI + 1
  /\ UNCHANGED <<chkText, chkPc, chkYts, chkStn>>

\* lines 81-82 of the one, 73-74 of the other: the words left in
\* current_chunk make the last chunk
ChunkLast ==
  /\ chkPc = "split"
  /\ chkI = Len(chkText)
  /\ chkChunks' = IF chkCur # <<>> THEN Append(chkChunks, JoinLen(chkCur))
                  ELSE chkChunks
  /\ chkParts' = IF chkCur # <<>> THEN Append(chkParts, chkCur) ELSE chkParts
  /\ chkPc' = "blocks"
  /\ UNCHANGED <<chkText, chkI, chkCur, chkLen, chkYts, chkStn>>

\* add_transcript_to_page of sync_youtube_transcripts_to_notion.py builds
\* the blocks of its request
YtsAddTranscriptToPage ==
  /\ chkPc = "blocks"
  /\ chkYts = <<>>
  /\ chkYts' = YtsBlocks(chkChunks)
  /\ UNCHANGED <<chkText, chkPc, chkI, chkChunks, chkCur, chkLen, chkStn,
                 chkParts>>

\* add_transcript_to_page of sync_transcripts_to_notion.py builds the blocks
\* of its request
StnAddTranscriptToPage ==
  /\ chkPc = "blocks"
  /\ chkStn = <<>>
  /\ chkStn' = StnBlocks(chkChunks)
  /\ UNCHANGED <<chkText, chkPc, chkI, chkChunks, chkCur, chkLen, chkYts,
                 chkParts>>

\* ======================================================================
\* normalize_name, match_guest and the acceptance test of main in
\* scripts/download_transcripts.py
\*
\* A string is the sequence of its characters.
\* ======================================================================

\* str.lower, on the letters that occur
Lower(s) ==
  [k \in DOMAIN s |-> IF s[k] = "A" THEN "a" ELSE IF s[k] = "B" THEN "b" ELSE s[k]]

\* x in y
IsSubstring(x, y) ==
  \E i \in 0..(Len(y) - Len(x)) : SubSeq(y, i + 1, i + Len(x)) = x

\* s[i:] starts with p
StartsWith(s, i, p) ==
  i + Len(p) <= Len(s) /\ SubSeq(s, i + 1, i + Len(p)) = p

Digits == {"0", "1", "2", "3", "4", "5", "6", "7", "8", "9"}

\* the alternatives of the pattern of line 49 that are fixed texts, in the
\* order of the pattern; atEnd is the $ of the alternative
NoisePatterns ==
  << [text |-> <<".", "s", "r", "t">>, atEnd |-> TRUE],
     [text |-> <<".", "e", "n", "_", "u", "s">>, atEnd |-> TRUE],
     [text |-> <<"_", "f", "i", "n", "a", "l">>, atEnd |-> TRUE],
     [text |-> <<"(", "n", "e", "w", ")">>, atEnd |-> FALSE],
     [text |-> <<"_", "s", "u", "b", "t", "i", "t", "l", "e", "s">>, atEnd |-> TRUE],
     [text |-> <<".", "m", "p", "4">>, atEnd |-> TRUE],
     [text |-> <<".", "m", "o", "v">>, atEnd |-> TRUE] >>

\* the length of the match of \(\d+\) at s[i:], 0 when there is none
DigitsMatch(s, i) ==
  IF i + 1 <= Len(s) /\ s[i + 1] = "("
  THEN LET ends == {j \in (i + 3)..Len(s) :
                      /\ s[j] = ")"
                      /\ \A k \in (i + 2)..(j - 1) : s[k] \in Digits}
       IN IF ends = {} THEN 0
          ELSE (CHOOSE j \in ends : \A k \in ends : j <= k) - i
  ELSE 0

\* the length of the match of the pattern of line 49 at s[i:], 0 when there
\* is none
NoiseMatch(s, i) ==
  LET hits == {k \in DOMAIN NoisePatterns :
                 /\ StartsWith(s, i, NoisePatterns[k].text)
                 /\ NoisePatterns[k].atEnd => i + Len(NoisePatterns[k].text) = Len(s)}
  IN IF hits # {}
     THEN Len(NoisePatterns[CHOOSE k \in hits : \A h \in hits : k <= h].text)
     ELSE DigitsMatch(s, i)

\* line 49: re.sub(pattern, '', name), from s[i:] on
RECURSIVE StripNoise(_, _)
StripNoise(s, i) ==
  IF i >= Len(s) THEN <<>>
  ELSE IF NoiseMatch(s, i) > 0 THEN StripNoise(s, i + NoiseMatch(s, i))
  ELSE <<s[i + 1]>> \o StripNoise(s, i + 1)

\* line 50: re.sub(r'[_\-]', ' ', name)
SeparatorsToSpaces(s) ==
  [k \in DOMAIN s |-> IF s[k] \in {"_", "-"} THEN " " ELSE s[k]]

\* line 51: re.sub(r'\s+', ' ', name).strip()
RECURSIVE CollapseSpaces(_)
CollapseSpaces(s) ==
  IF s = <<>> THEN <<>>
  ELSE IF Head(s) = " " /\ (Len(s) = 1 \/ s[2] = " ") THEN CollapseSpaces(Tail(s))
  ELSE <<Head(s)>> \o CollapseSpaces(Tail(s))

Strip(s) == IF s # <<>> /\ Head(s) = " " THEN Tail(s) ELSE s

\* normalize_name, lines 45-52
NormalizeName(name) ==
  Strip(CollapseSpaces(SeparatorsToSpaces(StripNoise(Lower(name), 0))))

\* SequenceMatcher.find_longest_match over the whole of a and b: the blocks
\* <<i, j, k>> with a[i:i+k] == b[j:j+k] and k > 0
CommonBlocks(a, b) ==
  {<<i, j, k>> \in (0..Len(a)) \X (0..Len(b)) \X (1..Len(a)) :
     /\ i + k <= Len(a)
     /\ j + k <= Len(b)
     /\ SubSeq(a, i + 1, i + k) = SubSeq(b, j + 1, j + k)}

\* the longest block, of those the one that starts earliest in a, and of
\* those the one that starts earliest in b
LongestMatch(a, b) ==
  CHOOSE m \in CommonBlocks(a, b) : \A n \in CommonBlocks(a, b) :
    \/ m[3] > n[3]
    \/ m[3] = n[3] /\ m[1] < n[1]
    \/ m[3] = n[3] /\ m[1] = n[1] /\ m[2] <= n[2]

\* SequenceMatcher.get_matching_blocks: the characters matched, the longest
\* block first and then the same to its left and to its right
RECURSIVE Matches(_, _)
Matches(a, b) ==
  IF CommonBlocks(a, b) = {} THEN 0
  ELSE LET m == LongestMatch(a, b)
       IN m[3] + Matches(SubSeq(a, 1, m[1]), SubSeq(b, 1, m[2]))
               + Matches(SubSeq(a, m[1] + m[3] + 1, Len(a)),
                         SubSeq(b, m[2] + m[3] + 1, Len(b)))

\* SequenceMatcher(None, a, b).ratio(): 2.0 * matches / (len(a) + len(b)),
\* and 1.0 for two empty strings; a score is kept as a fraction
Ratio(a, b) ==
  IF Len(a) + Len(b) = 0 THEN [num |-> 1, den |-> 1]
  ELSE [num |-> 2 * Matches(a, b), den |-> Len(a) + Len(b)]

ScoreZero == [num |-> 0, den |-> 1]
ScoreOne == [num |-> 1, den |-> 1]

\* the threshold 0.6
Threshold == [num |-> ThresholdTenths, den |-> 10]

\* x >= y, for scores
ScoreAtLeast(x, y) == x.num * y.den >= y.num * x.den

\* line 72, score > best_score, with >= for >
ScoreGreater_OrEqual(x, y) == x.num * y.den >= y.num * x.den

\* x > y, for scores
ScoreGreater(x, y) == x.num * y.den > y.num * x.den

\* line 67, with only the first of the two tests
ExactMatch_OneWay(guest, norm_srt) == IsSubstring(guest, norm_srt)

\* line 67: guest in norm_srt or norm_srt in guest
ExactMatch(guest, norm_srt) ==
  IsSubstring(guest, norm_srt) \/ IsSubstring(norm_srt, guest)

\* lines 61-74: the loop over episodes from episode i on; an episode is its
\* place in the catalog, 0 is None
RECURSIVE MatchLoop(_, _, _, _, _)
MatchLoop(norm_srt, episodes, i, best_match, best_score) ==
  IF i > Len(episodes) THEN [ep |-> best_match, score |-> best_score]
  ELSE LET guest == Lower(episodes[i])
           score == Ratio(norm_srt, guest)
       IN IF guest = <<>>
          THEN MatchLoop(norm_srt, episodes, i + 1, best_match, best_score)
          ELSE IF ExactMatch(guest, norm_srt)
          THEN [ep |-> i, score |-> ScoreOne]
          ELSE IF ScoreGreater(score, best_score) /\ ScoreGreater(score, Threshold)
          THEN MatchLoop(norm_srt, episodes, i + 1, i, score)
          ELSE MatchLoop(norm_srt, episodes, i + 1, best_match, best_score)

\* match_guest, lines 54-76
MatchGuest(srt_name, episodes) ==
  MatchLoop(NormalizeName(srt_name), episodes, 1, 0, ScoreZero)

\* the guest names of the catalogs and the file names match_guest is applied
\* to
GuestNames ==
  { <<>>, <<"b">>, <<"A", "b">>, <<"a", "b", "b">>, <<"a", "a", "b">>,
    <<"a", "-", "b">> }

SrtBodies ==
  { <<>>, <<"b">>, <<"a", "b">>, <<"a", "b", "a">>, <<"A", "B", "A">>,
    <<"a", "_", "b">>, <<"a", "-", "b">>, <<"b", "b", "a", "a", "a">>,
    <<"a", "a", "b", " ", " ", "a", "b">> }

SrtSuffixes ==
  { <<>>, <<".", "s", "r", "t">>, <<"_", "f", "i", "n", "a", "l">>,
    <<"(", "1", ")", ".", "s", "r", "t">> }

SrtNames == {b \o s : b \in SrtBodies, s \in SrtSuffixes}

Catalogs == UNION {[1..n -> GuestNames] : n \in 0..MaxCatalog}

MgNone == [ep |-> 0, score |-> ScoreZero]

MgInit ==
  /\ mgName \in SrtNames
  /\ mgEpisodes \in Catalogs
  /\ mgPc = "call"
  /\ mgResult = MgNone
  /\ mgAccepted = 0

\* the function is not part of the run
MgOff ==
  /\ mgName = <<>>
  /\ mgEpisodes = <<>>
  /\ mgPc = "call"
  /\ mgResult = MgNone
  /\ mgAccepted = 0

\* main, line 125: ep, score = match_guest(srt['name'], episodes)
MgCall ==
  /\ mgPc = "call"
  /\ mgResult' = MatchGuest(mgName, mgEpisodes)
  /\ mgPc' = "returned"
  /\ UNCHANGED <<mgName, mgEpisodes, mgAccepted>>

\* main, lines 126 and 153: if ep and score >= 0.6, the file is matched to
\* the episode, else it is left out
MgAccept ==
  /\ mgPc = "returned"
  /\ mgAccepted' = IF mgResult.ep # 0 /\ ScoreAtLeast(mgResult.score, Threshold)
                   THEN mgResult.ep ELSE 0
  /\ mgPc' = "done"
  /\ UNCHANGED <<mgName, mgEpisodes, mgResult>>

\* ======================================================================
\* The caption and subtitle converters: parse_vtt_to_text
\* (sync_youtube_transcripts_to_notion.py), convert_vtt_to_txt
\* (pull_youtube_captions.py) and srt_to_text (download_transcripts.py).
\* A text is the sequence of its characters.
\* ======================================================================
Newline == "\n"
Space == <<" ">>
Arrow == <<"-", "-", ">">>
Whitespace == {" ", "\t", "\r"}

\* sep.join(lines)
RECURSIVE JoinWith(_, _)
JoinWith(lines, sep) ==
  IF lines = <<>> THEN <<>>
  ELSE IF Len(lines) = 1 THEN lines[1]
  ELSE lines[1] \o sep \o JoinWith(Tail(lines), sep)

\* content.split('\n'); f.readlines() gives the same lines once stripped,
\* but for a last empty one, which the converters skip
SplitLines(content) ==
  LET cuts == {k \in DOMAIN content : content[k] = Newline}
                \cup {0, Len(content) + 1}
      cut(i) == CHOOSE k \in cuts : Cardinality({j \in cuts : j < k}) = i - 1
  IN [i \in 1..(Cardinality(cuts) - 1) |->
        SubSeq(content, cut(i) + 1, cut(i + 1) - 1)]

\* line.strip()
StripLine(line) ==
  LET inked == {k \in DOMAIN line : line[k] \notin Whitespace}
  IN IF inked = {} THEN <<>>
     ELSE SubSeq(line, CHOOSE k \in inked : \A j \in inked : k <= j,
                       CHOOSE k \in inked : \A j \in inked : j <= k)

\* line.isdigit(), and re.match(r'^\d+$', line) on a stripped line
IsDigitLine(line) == line # <<>> /\ \A k \in DOMAIN line : line[k] \in Digits

\* the length of the match of <[^>]+> at line[i:], 0 when there is none
TagMatch(line, i) ==
  IF line[i + 1] = "<"
  THEN LET closes == {j \in (i + 2)..Len(line) : line[j] = ">"}
       IN IF closes = {} THEN 0
          ELSE LET j == CHOOSE c \in closes : \A d \in closes : c <= d
               IN IF j >= i + 3 THEN j - i ELSE 0
  ELSE 0

\* re.sub(r'<[^>]+>', '', line), from line[i:] on
RECURSIVE RemoveTags(_, _)
RemoveTags(line, i) ==
  IF i >= Len(line) THEN <<>>
  ELSE IF TagMatch(line, i) > 0 THEN RemoveTags(line, i + TagMatch(line, i))
  ELSE <<line[i + 1]>> \o RemoveTags(line, i + 1)

\* the test of the first if of the loop of parse_vtt_to_text and
\* convert_vtt_to_txt, and the isdigit test after it, on a stripped line
VttSkipped(line) ==
  \/ line = <<>>
  \/ IsSubstring(Arrow, line)
  \/ StartsWith(line, 0, <<"W", "E", "B", "V", "T", "T">>)
  \/ StartsWith(line, 0, <<"K", "i", "n", "d", ":">>)
  \/ StartsWith(line, 0, <<"L", "a", "n", "g", "u", "a", "g", "e", ":">>)
  \/ IsDigitLine(line)

\* the first loop of parse_vtt_to_text and convert_vtt_to_txt: text_lines
RECURSIVE VttTextLines(_)
VttTextLines(lines) ==
  IF lines = <<>> THEN <<>>
  ELSE LET line == StripLine(Head(lines))
           rest == VttTextLines(Tail(lines))
       IN IF VttSkipped(line) THEN rest
          ELSE IF RemoveTags(line, 0) # <<>> THEN <<RemoveTags(line, 0)>> \o rest
          ELSE rest

\* the second loop of parse_vtt_to_text and convert_vtt_to_txt: a line is
\* kept when it differs from prev, the text line before it
Deduped(lines) ==
  LET kept == {k \in DOMAIN lines : k = 1 \/ lines[k] # lines[k - 1]}
      pick(i) == CHOOSE k \in kept : Cardinality({j \in kept : j < k}) = i - 1
  IN [i \in 1..Cardinality(kept) |-> lines[pick(i)]]

ParseVttToText(content) ==
  JoinWith(Deduped(VttTextLines(SplitLines(content))), Space)

\* convert_vtt_to_txt without its second loop: text_lines is written
ConvertVttToTxt_TextLines(content) ==
  JoinWith(VttTextLines(SplitLines(content)), <<Newline>>)

\* the text convert_vtt_to_txt writes to txt_path
ConvertVttToTxt(content) ==
  JoinWith(Deduped(VttTextLines(SplitLines(content))), <<Newline>>)

\* re.match(r'^\d{2}:\d{2}:\d{2}', line)
TimePrefix(line) ==
  /\ Len(line) >= 8
  /\ \A k \in {1, 2, 4, 5, 7, 8} : line[k] \in Digits
  /\ line[3] = ":"
  /\ line[6] = ":"

\* the loop of srt_to_text: text_lines
RECURSIVE SrtTextLines(_)
SrtTextLines(lines) ==
  IF lines = <<>> THEN <<>>
  ELSE LET line == StripLine(Head(lines))
           rest == SrtTextLines(Tail(lines))
       IN IF IsDigitLine(line) THEN rest
          ELSE IF TimePrefix(line) THEN rest
          ELSE IF IsSubstring(Arrow, line) THEN rest
          ELSE IF line # <<>> THEN <<line>> \o rest
          ELSE rest

SrtToText(content) == JoinWith(SrtTextLines(SplitLines(content)), Space)

\* The lines a caption file is made of here, each with what it is in the
\* cue format and, for a payload line, its text without the markup.
CueLines ==
  { [text |-> <<>>, kind |-> "blank", payload |-> <<>>],
    [text |-> <<"1">>, kind |-> "sequence", payload |-> <<>>],
    [text |-> <<"0", "0", ":", "0", "0", ":", "0", "1", " ", "-", "-", ">",
                " ", "0", "0", ":", "0", "0", ":", "0", "2">>,
     kind |-> "time", payload |-> <<>>],
    [text |-> <<"h", "i">>, kind |-> "payload", payload |-> <<"h", "i">>],
    [text |-> <<" ", "y", "o", " ">>, kind |-> "payload",
     payload |-> <<"y", "o">>],
    [text |-> <<"<", "i", ">", "h", "i", "<", "/", "i", ">">>,
     kind |-> "payload", payload |-> <<"h", "i">>],
    [text |-> <<"y", "o", "<", "c", ">", " ", "h", "i", "<", "/", "c", ">">>,
     kind |-> "payload", payload |-> <<"y", "o", " ", "h", "i">>],
    [text |-> <<"<", "c", ">", " ", "y", "o", "<", "/", "c", ">">>,
     kind |-> "payload", payload |-> <<" ", "y", "o">>],
    [text |-> <<"<", "b", ">", "7", "<", "/", "b", ">">>,
     kind |-> "payload", payload |-> <<"7">>] }

CueTracks == UNION {[1..n -> CueLines] : n \in 0..MaxLines}

FlatConverters == {"parse_vtt_to_text", "srt_to_text"}
Converters == FlatConverters \cup {"convert_vtt_to_txt"}

\* the content of the file of cvTrack
CvContent == JoinWith([k \in DOMAIN cvTrack |-> cvTrack[k].text], <<Newline>>)

CvInit ==
  /\ cvTrack \in CueTracks
  /\ cvFn \in Converters
  /\ cvPc = "call"
  /\ cvOut = <<>>
  /\ cvAgain = <<>>

CvOff ==
  /\ cvTrack = <<>>
  /\ cvFn = "srt_to_text"
  /\ cvPc = "call"
  /\ cvOut = <<>>
  /\ cvAgain = <<>>

\* sync_youtube_transcripts_to_notion.py main, line 198
CvParseVtt ==
  /\ cvPc = "call"
  /\ cvFn = "parse_vtt_to_text"
  /\ cvOut' = ParseVttToText(CvContent)
  /\ cvPc' = "returned"
  /\ UNCHANGED <<cvTrack, cvFn, cvAgain>>

\* pull_youtube_captions.py, convert_vtt_to_txt on a file with no .txt yet
CvConvertVtt ==
  /\ cvPc = "call"
  /\ cvFn = "convert_vtt_to_txt"
  /\ cvOut' = ConvertVttToTxt(CvContent)
  /\ cvPc' = "returned"
  /\ UNCHANGED <<cvTrack, cvFn, cvAgain>>

\* download_transcripts.py main, line 138
CvSrt ==
  /\ cvPc = "call"
  /\ cvFn = "srt_to_text"
  /\ cvOut' = SrtToText(CvContent)
  /\ cvPc' = "returned"
  /\ UNCHANGED <<cvTrack, cvFn, cvAgain>>

\* parse_vtt_to_text called on the text it returned
CvParseVttAgain ==
  /\ cvPc = "returned"
  /\ cvFn = "parse_vtt_to_text"
  /\ cvAgain' = ParseVttToText(cvOut)
  /\ cvPc' = "again"
  /\ UNCHANGED <<cvTrack, cvFn, cvOut>>

\* srt_to_text called on the text it returned
CvSrtAgain ==
  /\ cvPc = "returned"
  /\ cvFn = "srt_to_text"
  /\ cvAgain' = SrtToText(cvOut)
  /\ cvPc' = "again"
  /\ UNCHANGED <<cvTrack, cvFn, cvOut>>

\* ======================================================================
\* format_transcript_with_speakers (assemblyai_transcribe.py, lines 73-93).
\* An utterance is its speaker label and its text; the returned text is
\* the sequence of the pieces that ' '.join puts single spaces between.
\* ======================================================================
Speakers == {"A", "B", "C"}
UtteranceTexts == {"t1", "t2"}
Utterance == [speaker : Speakers, text : UtteranceTexts]
NoSpeaker == "None"

\* line 88: the name the label shows
SpeakerName(speaker) == IF speaker = "A" THEN "Michael" ELSE "Guest"

\* the first part of the f-string of line 89, up to the space before {text}
SpeakerLabel(speaker) == "\n**" \o SpeakerName(speaker) \o ":**"

\* line 85, with every utterance taken for a change of speaker
SpeakerChanged_Always(speaker, current) == TRUE

\* line 85: speaker != current_speaker
SpeakerChanged(speaker, current) == speaker # current

\* lines 81-91: the loop from the utterances us on, current_speaker being
\* current
RECURSIVE FormatLines(_, _)
FormatLines(us, current) ==
  IF us = <<>> THEN <<>>
  ELSE IF SpeakerChanged(Head(us).speaker, current)
       THEN <<SpeakerLabel(Head(us).speaker), Head(us).text>>
              \o FormatLines(Tail(us), Head(us).speaker)
       ELSE <<Head(us).text>> \o FormatLines(Tail(us), current)

\* lines 73-93
FormatTranscriptWithSpeakers(result) ==
  IF result.utterances = <<>> THEN <<result.text>>
  ELSE FormatLines(result.utterances, NoSpeaker)

FmtResults ==
  [utterances : UNION {[1..n -> Utterance] : n \in 0..MaxUtterances},
   text : {"text"}]

FmtInit ==
  /\ fmtResult \in FmtResults
  /\ fmtPc = "call"
  /\ fmtOut = <<>>

FmtOff ==
  /\ fmtResult = [utterances |-> <<>>, text |-> "text"]
  /\ fmtPc = "call"
  /\ fmtOut = <<>>

\* transcribe_episode, line 140, on a result with utterances
FmtUtterances ==
  /\ fmtPc = "call"
  /\ fmtResult.utterances # <<>>
  /\ fmtOut' = FormatTranscriptWithSpeakers(fmtResult)
  /\ fmtPc' = "returned"
  /\ UNCHANGED fmtResult

\* transcribe_episode, line 140, on a result without utterances
FmtFallback ==
  /\ fmtPc = "call"
  /\ fmtResult.utterances = <<>>
  /\ fmtOut' = FormatTranscriptWithSpeakers(fmtResult)
  /\ fmtPc' = "returned"
  /\ UNCHANGED fmtResult

\* ======================================================================
\* Specifications: one per script, the other scripts not running
\* ======================================================================
AaiOthers == UNCHANGED <<drvVars, dlVars, capVars, ytsVars, stnVars, chkVars, mgVars,
    cvVars, fmtVars>>

AaiNext ==
  \/ AaiMain /\ AaiOthers
  \/ AaiLoop /\ AaiOthers
  \/ AaiEntry /\ AaiOthers
  \/ AaiResume /\ AaiOthers
  \/ SubmitTranscription /\ AaiOthers
  \/ AaiSavePending /\ AaiOthers
  \/ AaiSaveProgress /\ AaiOthers
  \/ PollTranscription /\ AaiOthers
  \/ PollTimeout /\ AaiOthers
  \/ AaiCompleted /\ AaiOthers
  \/ AaiExcept /\ AaiOthers
  \/ AaiKill /\ AaiOthers

InitAai == AaiInit /\ DrvOff /\ DlOff /\ CapOff /\ YtsOff /\ StnOff /\ ChkOff /\ MgOff
  /\ FmtOff
  /\ CvOff

SpecAai == InitAai /\ [][AaiNext]_vars

\* One process of the transcription script that is not killed: a process
\* that runs goes on running, so a poll_transcription call whose request
\* returns takes its next step.
PollNext ==
  \/ AaiMain /\ aaiRuns = 0 /\ AaiOthers
  \/ AaiLoop /\ AaiOthers
  \/ AaiEntry /\ AaiOthers
  \/ AaiResume /\ AaiOthers
  \/ SubmitTranscription /\ AaiOthers
  \/ AaiSavePending /\ AaiOthers
  \/ AaiSaveProgress /\ AaiOthers
  \/ PollTranscription /\ AaiOthers
  \/ PollTimeout /\ AaiOthers
  \/ AaiCompleted /\ AaiOthers
  \/ AaiExcept /\ AaiOthers

InitPoll == InitAai

SpecPoll ==
  /\ InitPoll
  /\ [][PollNext]_vars
  /\ WF_vars(PollTranscription /\ AaiOthers)
  /\ WF_vars(PollTimeout /\ AaiOthers)

DrvOthers == UNCHANGED <<aaiVars, dlVars, capVars, ytsVars, stnVars, chkVars, mgVars,
    cvVars, fmtVars>>

DrvNext ==
  \/ DrvMain /\ DrvOthers
  \/ DrvLoop /\ DrvOthers
  \/ DrvCheck /\ DrvOthers
  \/ DrvProcess /\ DrvOthers
  \/ DrvSaveOpen /\ DrvOthers
  \/ DrvSaveProgress /\ DrvOthers
  \/ DrvKill /\ DrvOthers

InitDrv == AaiInit /\ DrvInit /\ DlOff /\ CapOff /\ YtsOff /\ StnOff /\ ChkOff /\ MgOff
  /\ FmtOff
  /\ CvOff

SpecDrv == InitDrv /\ [][DrvNext]_vars

\* The Drive sync always started with --resume, from no progress file,
\* killed at any point.
ResumeNext ==
  \/ DrvStart(TRUE) /\ DrvOthers
  \/ DrvLoop /\ DrvOthers
  \/ DrvCheck /\ DrvOthers
  \/ DrvProcess /\ DrvOthers
  \/ DrvSaveOpen /\ DrvOthers
  \/ DrvSaveProgress /\ DrvOthers
  \/ DrvKill /\ DrvOthers

InitResume == InitDrv

SpecResume == InitResume /\ [][ResumeNext]_vars

DlOthers == UNCHANGED <<aaiVars, drvVars, capVars, ytsVars, stnVars, chkVars, mgVars,
    cvVars, fmtVars>>

DlNext ==
  \/ DlMain /\ DlOthers
  \/ DlLoop /\ DlOthers
  \/ DownloadFile /\ DlOthers
  \/ DlConvert /\ DlOthers
  \/ DlSaveMapping /\ DlOthers
  \/ DlKill /\ DlOthers

InitDl == AaiInit /\ DrvOff /\ DlInit /\ CapOff /\ YtsOff /\ StnOff /\ ChkOff /\ MgOff
  /\ FmtOff
  /\ CvOff

SpecDl == InitDl /\ [][DlNext]_vars

\* The caption pipeline: the download script run to its end, then the sync
\* script run to its end, and so on, each up to MaxRuns times.
CapOthers == UNCHANGED <<aaiVars, drvVars, dlVars, ytsVars, stnVars, chkVars, mgVars,
    cvVars, fmtVars>>
YtsOthers == UNCHANGED <<aaiVars, drvVars, dlVars, capVars, stnVars, chkVars, mgVars,
    cvVars, fmtVars>>

CapNext ==
  \/ CapMain /\ capRuns = ytsRuns /\ ytsPc = "idle" /\ CapOthers
  \/ CapDownload /\ CapOthers
  \/ CapCadence /\ CapOthers
  \/ CapLoopEnd /\ CapOthers
  \/ CapSaveProgress /\ CapOthers
  \/ CapConvert /\ CapOthers
  \/ YtsMain /\ ytsRuns < capRuns /\ capPc = "idle" /\ YtsOthers
  \/ YtsProcess /\ YtsOthers
  \/ YtsCadence /\ YtsOthers
  \/ YtsLoopEnd /\ YtsOthers
  \/ YtsSaveSynced /\ YtsOthers

InitCap == AaiInit /\ DrvOff /\ DlOff /\ CapInit /\ YtsInit /\ StnOff /\ ChkOff /\ MgOff
  /\ FmtOff
  /\ CvOff

SpecCap == InitCap /\ [][CapNext]_vars

\* The download script alone, killed at any point.
PullNext ==
  \/ CapMain /\ CapOthers
  \/ CapDownload /\ CapOthers
  \/ CapCadence /\ CapOthers
  \/ CapLoopEnd /\ CapOthers
  \/ CapSaveProgress /\ CapOthers
  \/ CapConvert /\ CapOthers
  \/ CapKill /\ CapOthers

InitPull == AaiInit /\ DrvOff /\ DlOff /\ CapInit /\ YtsOff /\ StnOff /\ ChkOff /\ MgOff
  /\ FmtOff
  /\ CvOff

SpecPull == InitPull /\ [][PullNext]_vars

\* The download script and the sync script started by hand at any time, each
\* a process of its own over the same TRANSCRIPTS_DIR: one download run with
\* sync runs beside it.
BesideNext ==
  \/ CapMain /\ capRuns = 0 /\ CapOthers
  \/ CapDownload /\ CapOthers
  \/ CapDownloadBegin /\ CapOthers
  \/ CapDownloadEnd /\ CapOthers
  \/ CapCadence /\ CapOthers
  \/ CapLoopEnd /\ CapOthers
  \/ CapSaveProgress /\ CapOthers
  \/ CapConvert /\ CapOthers
  \/ YtsMain /\ YtsOthers
  \/ YtsProcess /\ YtsOthers
  \/ YtsCadence /\ YtsOthers
  \/ YtsLoopEnd /\ YtsOthers
  \/ YtsSaveSynced /\ YtsOthers

InitBeside == InitCap

SpecBeside == InitBeside /\ [][BesideNext]_vars

\* The sync script alone over the caption files of earlier downloads, killed
\* at any point.
YtsNext ==
  \/ YtsMain /\ YtsOthers
  \/ YtsProcess /\ YtsOthers
  \/ YtsCadence /\ YtsOthers
  \/ YtsLoopEnd /\ YtsOthers
  \/ YtsSaveSynced /\ YtsOthers
  \/ YtsKill /\ YtsOthers

InitYts == AaiInit /\ DrvOff /\ DlOff /\ CapFiles /\ YtsInitFiles /\ StnOff /\ ChkOff /\ MgOff
  /\ FmtOff
  /\ CvOff

SpecYts == InitYts /\ [][YtsNext]_vars

\* The mapping-based publisher alone, run up to MaxRuns times over the pages
\* of the database.
StnOthers == UNCHANGED <<aaiVars, drvVars, dlVars, capVars, ytsFile, ytsData,
                         ytsPc, ytsTodo, ytsI, ytsRuns, ytsFaults, ytsAppends,
                         ytsFirst, chkVars, mgVars, cvVars, fmtVars>>

StnNext ==
  \/ StnMain /\ StnOthers
  \/ StnLoop /\ StnOthers
  \/ StnProcess /\ StnOthers

InitStn == AaiInit /\ DrvOff /\ DlOff /\ CapOff /\ YtsInit /\ StnInit /\ ChkOff /\ MgOff
  /\ FmtOff
  /\ CvOff

SpecStn == InitStn /\ [][StnNext]_vars

\* add_transcript_to_page of the two publishers applied to a text.
ChkOthers == UNCHANGED <<aaiVars, drvVars, dlVars, capVars, ytsVars, stnVars,
                         mgVars, cvVars, fmtVars>>

ChkNext ==
  \/ ChunkWord /\ ChkOthers
  \/ ChunkLast /\ ChkOthers
  \/ YtsAddTranscriptToPage /\ ChkOthers
  \/ StnAddTranscriptToPage /\ ChkOthers

InitChk == AaiInit /\ DrvOff /\ DlOff /\ CapOff /\ YtsOff /\ StnOff /\ ChkInit /\ MgOff
  /\ FmtOff
  /\ CvOff

SpecChk == InitChk /\ [][ChkNext]_vars

\* match_guest applied to a file name and a catalog, and main's test of
\* what it returns.
MgOthers == UNCHANGED <<aaiVars, drvVars, dlVars, capVars, ytsVars, stnVars,
                        chkVars, cvVars, fmtVars>>

MgNext ==
  \/ MgCall /\ MgOthers
  \/ MgAccept /\ MgOthers

InitMg == AaiInit /\ DrvOff /\ DlOff /\ CapOff /\ YtsOff /\ StnOff /\ ChkOff /\ MgInit
  /\ FmtOff
  /\ CvOff

SpecMg == InitMg /\ [][MgNext]_vars

\* A converter applied to a caption file, and the flat ones applied again to
\* what they returned.
CvOthers == UNCHANGED <<aaiVars, drvVars, dlVars, capVars, ytsVars, stnVars,
                        chkVars, mgVars, fmtVars>>

CvNext ==
  \/ CvParseVtt /\ CvOthers
  \/ CvConvertVtt /\ CvOthers
  \/ CvSrt /\ CvOthers
  \/ CvParseVttAgain /\ CvOthers
  \/ CvSrtAgain /\ CvOthers

InitCv ==
  /\ FmtOff
  /\ AaiInit /\ DrvOff /\ DlOff /\ CapOff /\ YtsOff /\ StnOff /\ ChkOff /\ MgOff
  /\ CvInit

SpecCv == InitCv /\ [][CvNext]_vars

\* format_transcript_with_speakers applied to a result of the service.
FmtOthers == UNCHANGED <<aaiVars, drvVars, dlVars, capVars, ytsVars, stnVars,
                         chkVars, mgVars, cvVars>>

FmtNext ==
  \/ FmtUtterances /\ FmtOthers
  \/ FmtFallback /\ FmtOthers

InitFmt ==
  /\ AaiInit /\ DrvOff /\ DlOff /\ CapOff /\ YtsOff /\ StnOff /\ ChkOff /\ MgOff
  /\ CvOff /\ FmtInit

SpecFmt == InitFmt /\ [][FmtNext]_vars

\* ----------------------------------------------------------------------
\* Claims about scripts/assemblyai_transcribe.py, checked under SpecAai
\* ----------------------------------------------------------------------
AaiSavedPending == IF aaiFile.st = "ok" THEN aaiFile.val.pending ELSE EmptyDict
AaiSavedFailed == IF aaiFile.st = "ok" THEN Range(aaiFile.val.failed) ELSE {}

\* C1: over any sequence of runs, killed anywhere and with any outcomes, the
\* service is asked at most once to transcribe a given episode.
C1_SubmittedAtMostOnce == \A e \in Episodes : aaiSubmitted[e] <= 1

\* C2: a process that finds a pending job id saved for the episode it is
\* working on polls that id and does not submit: no submission is under way
\* while the saved ledger holds an id for the episode, and a poll of a job
\* the process did not submit itself is a poll of the saved id.
C2_ResumePollsSavedJob ==
  /\ aaiPc \in {"submit", "submitted"} => aaiEp \notin DOMAIN AaiSavedPending
  /\ (aaiPc = "poll" /\ ~aaiFresh) =>
       /\ aaiEp \in DOMAIN AaiSavedPending
       /\ AaiSavedPending[aaiEp] = aaiTid

\* a second process resumes the job the first one submitted and saved
C2_Witness ==
  /\ aaiRuns = 2
  /\ aaiPc = "poll"
  /\ ~aaiFresh
  /\ aaiSubmitted[aaiEp] = 1
  /\ aaiTid = <<aaiEp, 1>>
  /\ aaiOut[aaiEp] = "absent"

\* C3: whenever a poll request for a newly submitted job can be issued, the
\* progress file on disk is complete and lists that job id as pending for
\* the episode.
C3_PendingSavedBeforePoll ==
  (aaiPc = "poll" /\ aaiFresh) =>
     /\ aaiEp \in DOMAIN AaiSavedPending
     /\ AaiSavedPending[aaiEp] = aaiTid

\* a fresh job about to be polled for the first time
C3_Witness ==
  /\ aaiPc = "poll"
  /\ aaiFresh
  /\ aaiWaited = 0
  /\ aaiTid = <<aaiEp, aaiSubmitted[aaiEp]>>

\* C4: after poll_transcription ran into its ceiling and the call returned,
\* the saved ledger still lists the job id as pending for the episode and
\* does not list the episode as failed by that timeout.
C4_TimeoutStaysPending ==
  (aaiPc = "loop" /\ aaiErr = "timeout") =>
     /\ aaiEp \in DOMAIN AaiSavedPending
     /\ AaiSavedPending[aaiEp] = aaiTid
     /\ [episode |-> aaiEp, error |-> "timeout"] \notin AaiSavedFailed

\* C12: no transcript under 100 characters is written to an episode's output
\* file, and no episode with such an output is listed as completed in the
\* progress file.
C12_ShortNeverPublished ==
  \A e \in Episodes :
    /\ aaiOut[e] # "short"
    /\ (aaiFile.st = "ok" /\ e \in Range(aaiFile.val.completed)) => aaiOut[e] = "long"

\* C9: once a process is gone, killed during a save or not, its ledger file
\* on disk is not a half-written or empty one: it holds the complete content
\* of a save or has never been written.
C9_LedgerNeverPartial ==
  /\ aaiPc = "idle" => aaiFile.st # "partial"
  /\ capPc = "idle" => capFile.st # "partial"
  /\ ytsPc = "idle" => ytsFile.st # "partial"
\* ----------------------------------------------------------------------
\* Claims about scripts/sync_transcripts_to_drive.py, checked under SpecDrv
\* ----------------------------------------------------------------------
\* C7: over any sequence of runs, an episode's folder never holds more than
\* one transcript document.
C7_OneTranscriptDocPerFolder == \A f \in Matched : Len(drvDocs[f]) <= 1
\* ----------------------------------------------------------------------
\* Claims about scripts/download_transcripts.py, checked under SpecDl
\* ----------------------------------------------------------------------
\* C8: a local transcript path that exists is not written again: starting
\* with no files, every .srt path and every .txt path is written at most
\* once over all runs.
C8_ExistingPathNotRewritten ==
  \A f \in SrtFiles : dlSrtWrites[f] <= 1 /\ dlTxtWrites[f] <= 1
\* ----------------------------------------------------------------------
\* Claims about the caption pipeline, checked under SpecCap and SpecYts
\* ----------------------------------------------------------------------
\* C5: from the second run of the pipeline on, the download script runs
\* yt-dlp for no video and writes no caption text file, the sync script sends
\* no append request, and each ledger file, once rewritten, holds what the
\* first run left in it.
C5_SecondRunNoOp ==
  /\ capRuns >= 2 =>
       /\ capDownloads = 0
       /\ capTxtWrites = 0
       /\ capFile.st = "ok" => capFile.val = capFirst
  /\ ytsRuns >= 2 =>
       /\ ytsAppends = 0
       /\ ytsFile.st = "ok" => ytsFile.val = ytsFirst

\* the second run of the pipeline has ended, after a first run that
\* downloaded captions, had a download fail, wrote a text file and appended
\* a transcript to a page
C5_Witness ==
  /\ capRuns = 2
  /\ ytsRuns = 2
  /\ capPc = "idle"
  /\ ytsPc = "idle"
  /\ capFile = FileOk(capFirst)
  /\ ytsFile = FileOk(ytsFirst)
  /\ capFirst.completed # <<>>
  /\ capFirst.failed # <<>>
  /\ capTxt # {}
  /\ ytsFirst.synced # <<>>

\* C5 as stated: in addition, the second run writes no file at all, the two
\* ledger files included.
C5_SecondRunNoFileWrite ==
  /\ C5_SecondRunNoOp
  /\ capRuns >= 2 => capFile.st = "ok"
  /\ ytsRuns >= 2 => ytsFile.st = "ok"

\* C6: over any sequence of runs of the sync script, killed anywhere, no page
\* holds more than one transcript section.
C6_NoSecondSection == \A e \in DOMAIN ytsPages : ytsPages[e].sections <= 1

\* C10: inside the sync loop, the outcomes recorded in synced_data and not
\* in the progress file are at most YtsEvery; inside the download loop, the
\* outcomes recorded in progress and not in the progress file are at most
\* CapEvery.
C10_UnsavedBounded ==
  /\ ytsPc \in {"loop", "cadence"} =>
       YtsTotal(ytsData) - YtsTotal(YtsLoadSynced(ytsFile)) <= YtsEvery
  /\ capPc \in {"loop", "cadence"} =>
       CapTotal(capProgress) - CapTotal(CapLoadProgress(capFile)) <= CapEvery
\* ----------------------------------------------------------------------
\* Claims about scripts/sync_transcripts_to_notion.py, checked under SpecStn
\* ----------------------------------------------------------------------
\* C11: a failure while processing one entry never ends the process: no
\* process is ended by an exception.
C11_ItemFailureCaught == stnPc # "crashed"
\* ----------------------------------------------------------------------
\* Claims about add_transcript_to_page, checked under SpecChk
\* ----------------------------------------------------------------------
ChkBlocks == {chkYts, chkStn}

\* C13: every paragraph of a request holds at most ChunkMax characters,
\* hence less than the BlockCharLimit of a block.
C13_ChunkWithinSize ==
  \A blocks \in ChkBlocks : \A k \in DOMAIN blocks :
    blocks[k].len <= ChunkMax /\ blocks[k].len < BlockCharLimit

\* C14: a request carries at most BlockLimit blocks, all kinds counted.
C14_BlocksWithinLimit == \A blocks \in ChkBlocks : Len(blocks) <= BlockLimit

\* C15: a request built from a text with more chunks than paragraphs sent
\* ends with the truncation marker.
C15_TruncationMarked ==
  LET paragraphs(blocks) ==
        Cardinality({k \in DOMAIN blocks :
                       blocks[k].type = "paragraph" /\ ~blocks[k].marker})
  IN \A blocks \in ChkBlocks :
       (blocks # <<>> /\ paragraphs(blocks) < Len(chkChunks)) =>
          blocks[Len(blocks)] = TruncationMarker
\* ----------------------------------------------------------------------
\* Claims about match_guest, checked under SpecMg
\* ----------------------------------------------------------------------
\* the episodes that have a guest name
MgNamed == {i \in DOMAIN mgEpisodes : mgEpisodes[i] # <<>>}

\* the episodes whose lower-cased guest name contains the normalized file
\* name or is contained in it
MgExact ==
  {i \in MgNamed :
     \/ IsSubstring(Lower(mgEpisodes[i]), NormalizeName(mgName))
     \/ IsSubstring(NormalizeName(mgName), Lower(mgEpisodes[i]))}

\* the similarity of the normalized file name and episode i
MgScore(i) == Ratio(NormalizeName(mgName), Lower(mgEpisodes[i]))

\* the episodes whose similarity is above 0.6
MgFuzzy ==
  LET sc == [i \in MgNamed |-> MgScore(i)]
  IN {i \in MgNamed : sc[i].num * 10 > ThresholdTenths * sc[i].den}

\* the episodes of MgFuzzy with the highest similarity
MgBest ==
  LET sc == [i \in MgNamed |-> MgScore(i)]
      fuzzy == {i \in MgNamed : sc[i].num * 10 > ThresholdTenths * sc[i].den}
  IN {i \in fuzzy : \A j \in fuzzy :
        sc[i].num * sc[j].den >= sc[j].num * sc[i].den}

\* C16: match_guest returns an episode exactly when some episode's name
\* contains or is contained in the normalized name, and then with confidence
\* 1.0, or some similarity is above 0.6; main matches the file to exactly
\* the episode match_guest returns.
C16_ReturnsIffExactOrFuzzy ==
  mgPc # "call" =>
    /\ mgResult.ep # 0 <=> (MgExact # {} \/ MgFuzzy # {})
    /\ MgExact # {} => (mgResult.ep \in MgExact /\ mgResult.score = ScoreOne)
    /\ (MgExact = {} /\ MgFuzzy # {}) => mgResult.ep \in MgFuzzy
    /\ mgPc = "done" => mgAccepted = mgResult.ep

\* a file matched on similarity alone, a file matched on containment after
\* a similar episode, and a file left out all occur
C16_Witness ==
  /\ mgPc = "done"
  /\ Len(mgEpisodes) = 2
  /\ mgAccepted = 2
  /\ 1 \in MgFuzzy
  /\ MgExact = {2}
  /\ mgResult.score = ScoreOne

\* C17: when the normalized file name and the normalized guest name of some
\* episode contain one another, match_guest returns such an episode with
\* confidence 1.0.
C17_NormalizedContainmentWins ==
  LET norm == NormalizeName(mgName)
      rel == {i \in DOMAIN mgEpisodes :
                /\ NormalizeName(mgEpisodes[i]) # <<>>
                /\ \/ IsSubstring(NormalizeName(mgEpisodes[i]), norm)
                   \/ IsSubstring(norm, NormalizeName(mgEpisodes[i]))}
  IN (mgPc # "call" /\ rel # {}) =>
       mgResult.ep \in rel /\ mgResult.score = ScoreOne

\* C18: when no episode's name contains the normalized name or is contained
\* in it, match_guest returns the first episode in catalog order among those
\* with the highest similarity above 0.6, with that similarity, and none
\* when there is no such episode.
C18_FirstOfHighest ==
  (mgPc # "call" /\ MgExact = {}) =>
     LET best == MgBest
     IN IF best = {} THEN mgResult.ep = 0
        ELSE /\ mgResult.ep \in best
             /\ \A i \in best : mgResult.ep <= i
             /\ mgResult.score = MgScore(mgResult.ep)

\* two episodes share the highest similarity and the first one is returned
C18_Witness ==
  /\ mgPc = "returned"
  /\ MgExact = {}
  /\ MgBest = {1, 2}
  /\ Lower(mgEpisodes[1]) # Lower(mgEpisodes[2])
  /\ mgResult.ep = 1

\* ----------------------------------------------------------------------
\* Claims about the caption and subtitle converters, checked under SpecCv
\* ----------------------------------------------------------------------
\* C19: a flat converter (parse_vtt_to_text, srt_to_text) applied to the
\* text it returned for a caption file returns that text unchanged.
C19_FlatNormalizerIdempotent == cvPc = "again" => cvAgain = cvOut

\* the texts of the payload lines of the file, without their markup, in the
\* order of the file
RECURSIVE PayloadsOf(_)
PayloadsOf(track) ==
  IF track = <<>> THEN <<>>
  ELSE IF Head(track).kind = "payload"
       THEN <<Head(track).payload>> \o PayloadsOf(Tail(track))
       ELSE PayloadsOf(Tail(track))

\* every run of equal lines reduced to its first line
RECURSIVE CollapseRuns(_)
CollapseRuns(lines) ==
  IF Len(lines) <= 1 THEN lines
  ELSE IF lines[1] = lines[2] THEN CollapseRuns(Tail(lines))
  ELSE <<lines[1]>> \o CollapseRuns(Tail(lines))

\* C20: what each converter returns for a caption file is the payload lines
\* of the file in their order, without sequence numbers, time ranges and
\* markup, every run of equal payload lines reduced to one line, joined by
\* the converter's separator.
C20_PayloadCollapsed ==
  cvPc # "call" =>
    cvOut = JoinWith(CollapseRuns(PayloadsOf(cvTrack)),
                     IF cvFn = "convert_vtt_to_txt" THEN <<Newline>> ELSE Space)

\* ----------------------------------------------------------------------
\* Claims about format_transcript_with_speakers, checked under SpecFmt
\* ----------------------------------------------------------------------
\* the pieces of the returned text that are speaker labels
FmtLabels == {SpeakerLabel(s) : s \in Speakers}

\* the positions of fmtOut that hold an utterance text, in order
FmtTextAt == 
  LET at == {k \in DOMAIN fmtOut : fmtOut[k] \notin FmtLabels}
  IN [i \in 1..Cardinality(at) |->
        CHOOSE k \in at : Cardinality({j \in at : j < k}) = i - 1]

\* utterance i starts a maximal run of utterances of one speaker
FmtRunStart(i) ==
  i = 1 \/ fmtResult.utterances[i].speaker # fmtResult.utterances[i - 1].speaker

\* C21: for a result with utterances, the returned text holds the utterance
\* texts in the order of the input; the text of the first utterance of a
\* run of one speaker is preceded by that speaker's label (Michael for A,
\* Guest for any other), the text of any other utterance by no label.
C21_LabelOncePerRun ==
  (fmtPc = "returned" /\ fmtResult.utterances # <<>>) =>
    LET us == fmtResult.utterances
    IN /\ Len(FmtTextAt) = Len(us)
       /\ \A i \in DOMAIN us :
            /\ fmtOut[FmtTextAt[i]] = us[i].text
            /\ LET before == FmtTextAt[i] - 1
                   labelled == before >= 1 /\ fmtOut[before] \in FmtLabels
               IN /\ labelled <=> FmtRunStart(i)
                  /\ labelled =>
                       fmtOut[before] =
                         (IF us[i].speaker = "A" THEN "\n**Michael:**"
                                                 ELSE "\n**Guest:**")
       /\ Cardinality({k \in DOMAIN fmtOut : fmtOut[k] \in FmtLabels})
            = Cardinality({i \in DOMAIN us : FmtRunStart(i)})

\* a run of two utterances of the host, then a guest
C21_Witness ==
  /\ fmtPc = "returned"
  /\ Len(fmtResult.utterances) = 3
  /\ fmtResult.utterances[1].speaker = "A"
  /\ fmtResult.utterances[2].speaker = "A"
  /\ fmtResult.utterances[3].speaker = "C"
  /\ Len(fmtOut) = 5

\* ----------------------------------------------------------------------
\* Claims about the ledgers of the pipelines
\* ----------------------------------------------------------------------
\* the keys a saved ledger lists, category after category
AaiKeys(progress) ==
  progress.completed \o [i \in DOMAIN progress.failed |-> progress.failed[i].episode]
CapKeys(progress) == progress.completed \o progress.failed \o progress.no_captions
YtsKeys(data) == data.synced \o data.failed \o data.skipped

NoRepeat(keys) == \A i, j \in DOMAIN keys : i # j => keys[i] # keys[j]

\* C22: every ledger on disk lists a key in at most one of its outcome
\* categories and at most once there.
C22_KeyRecordedOnce ==
  /\ aaiFile.st = "ok" => NoRepeat(AaiKeys(aaiFile.val))
  /\ capFile.st = "ok" => NoRepeat(CapKeys(capFile.val))
  /\ ytsFile.st = "ok" => NoRepeat(YtsKeys(ytsFile.val))

\* ----------------------------------------------------------------------
\* Claims about the outcomes of scripts/pull_youtube_captions.py
\* ----------------------------------------------------------------------
\* the step of main that calls download_captions for video v
CapCalls(v) ==
  capPc = "loop" /\ capPc' = "cadence" /\ v = capTodo[capI + 1]

\* C23: a video without captions is listed as no_captions and not as
\* failed, a video whose download failed as failed and not as no_captions,
\* and download_captions is never called for a video that the ledger on
\* disk lists in one of the two categories.
C23_NoCaptionsAndFailedFinal ==
  [][\A v \in Videos :
       CapCalls(v) =>
         /\ v \notin Range(CapLoadProgress(capFile).no_captions)
         /\ v \notin Range(CapLoadProgress(capFile).failed)
         /\ capResult' = "no_captions" =>
              /\ capProgress'.no_captions = Append(capProgress.no_captions, v)
              /\ capProgress'.failed = capProgress.failed
         /\ capResult' = "failed" =>
              /\ capProgress'.failed = Append(capProgress.failed, v)
              /\ capProgress'.no_captions = capProgress.no_captions]_vars

\* a second process runs over a ledger that lists one video as failed and
\* another as no_captions
C23_Witness ==
  /\ capRuns = 2
  /\ capPc = "loop"
  /\ capFile.st = "ok"
  /\ capFile.val.failed # <<>>
  /\ capFile.val.no_captions # <<>>

\* C24: a video whose download timed out is not listed as failed in the
\* ledger on disk, and a later run still takes it for download.
C24_TimeoutNotPermanent ==
  capFile.st = "ok" =>
    \A v \in capTimedOut :
      /\ v \notin Range(capFile.val.failed)
      /\ v \in Range(CapToProcess(capFile.val))

\* ----------------------------------------------------------------------
\* Claims about the downloads of scripts/download_transcripts.py
\* ----------------------------------------------------------------------
\* the files match_guest matched, and those of them download_file fetched
DlMatchedFiles == {f \in SrtFiles : dlGuest[f] # 0}
DlDownloadedFiles == {f \in SrtFiles : dlFilepath[f] = "path"}

\* C25: when main saves the mapping, download_file has been called for every
\* matched file, whatever it returned for the files before it, and the
\* mapping saved lists each file that was downloaded once and no other.
C25_MappingIsDownloaded ==
  [][(dlPc = "dump" /\ dlMappingFile'.st = "ok") =>
       /\ \A f \in DlMatchedFiles : dlFilepath[f] # "unset"
       /\ DlDownloadedFiles \subseteq DlMatchedFiles
       /\ \A f \in DlDownloadedFiles :
            Cardinality({k \in DOMAIN dlMappingFile'.val :
                           dlMappingFile'.val[k].srt_file = f}) = 1
       /\ \A k \in DOMAIN dlMappingFile'.val :
            dlMappingFile'.val[k].srt_file \in DlDownloadedFiles]_vars

\* a run in which the download of the first matched file failed has saved a
\* mapping that lists the second one
C25_Witness ==
  /\ dlPc = "idle"
  /\ dlMappingFile.st = "ok"
  /\ dlFilepath[1] = "None"
  /\ dlFilepath[2] = "path"
  /\ Len(dlMappingFile.val) = 1
  /\ dlMappingFile.val[1].srt_file = 2

\* ----------------------------------------------------------------------
\* Claims about poll_transcription, checked under SpecPoll
\* ----------------------------------------------------------------------
\* C26: a poll_transcription call ends: with the result when the status is
\* completed, with an exception when the status is error or the request
\* raises, and with the timeout exception only when max_wait has passed;
\* it has slept a whole number of intervals, max_wait at most, so it has
\* sent at most max_wait / interval requests.
C26_PollTerminates ==
  /\ [](aaiPc = "poll" =>
          /\ aaiWaited % PollSleep = 0
          /\ aaiWaited <= MaxWait)
  /\ [][(aaiPc = "poll" /\ aaiPc' # "poll") =>
          \/ aaiPc' = "written" /\ aaiWaited < MaxWait
          \/ aaiPc' = "except" /\ aaiErr' \in {"request", "error"}
               /\ aaiWaited < MaxWait
          \/ aaiPc' = "except" /\ aaiErr' = "timeout" /\ aaiWaited >= MaxWait]_vars
  /\ (aaiPc = "poll") ~> (aaiPc \in {"written", "except"})

\* a call that found the job in progress at every request has raised the
\* timeout
C26_Witness == aaiPc = "except" /\ aaiErr = "timeout"

\* ----------------------------------------------------------------------
\* Claims about the two caption renderers, checked under SpecCv
\* ----------------------------------------------------------------------
\* the text with every line separator replaced by a space
SpacedLines(text) == JoinWith(SplitLines(text), Space)

YtsPublishes(ep) ==
  /\ ytsPc = "loop"
  /\ ytsI < Len(ytsTodo)
  /\ ep = ytsTodo[ytsI + 1]
  /\ ytsData'.synced = Append(ytsData.synced, ep)
  /\ ytsPages'[ep].sections = ytsPages[ep].sections + 1

DrvTreatsAsPublished ==
  /\ drvPc = "check"
  /\ drvPc' = "save"
  /\ drvProgress'.skipped = Append(drvProgress.skipped, drvI + 1)

\* C29: a document that makes a run set its episode aside as already
\* published holds the transcript text.
C29_ExistingDocHasText ==
  [][DrvTreatsAsPublished => drvDocs[drvI + 1][1] = "full"]_vars

\* ----------------------------------------------------------------------
\* Claims about scripts/sync_transcripts_to_drive.py run with --resume,
\* checked under SpecResume
\* ----------------------------------------------------------------------
\* the episode numbers with an outcome in a ledger
DrvKeys(progress) == progress.synced \o progress.skipped \o progress.errors

\* entries 1..last_index of matched have one outcome each, the others none
DrvLedgerInStep(progress) ==
  /\ progress.last_index = Len(DrvKeys(progress))
  /\ NoRepeat(DrvKeys(progress))
  /\ Range(DrvKeys(progress)) = 1..progress.last_index

\* C30: with --resume from no ledger, every ledger on disk has last_index
\* equal to the number of recorded outcomes, which are those of the first
\* last_index entries, once each; a save raises last_index (by one); a
\* resumed run starts at the first entry with no outcome in the ledger.
C30_ResumeInStep ==
  /\ [](drvFile.st = "ok" => DrvLedgerInStep(drvFile.val))
  /\ [][(drvPc = "save" /\ drvPc' = "dump") =>
          /\ drvFile.st # "partial"
          /\ drvProgress.last_index = DrvLoadProgress(drvFile).last_index + 1]_vars
  /\ [][(drvPc = "dump" /\ drvFile'.st = "ok") =>
          drvFile'.val = drvProgress]_vars
  /\ [][(drvPc = "idle" /\ drvPc' = "loop") =>
          /\ drvI' = DrvLoadProgress(drvFile).last_index
          /\ \A m \in Matched :
               m \in Range(DrvKeys(DrvLoadProgress(drvFile))) <=> m <= drvI']_vars

\* the second run resumes at the second entry: the first run was killed
\* after it saved the outcome of the first
C30_Witness ==
  /\ drvRuns = 2
  /\ drvPc = "check"
  /\ drvI = 1
  /\ drvFile.st = "ok"
  /\ drvFile.val.last_index = 1

\* ----------------------------------------------------------------------
\* Further claims about the ledger of scripts/assemblyai_transcribe.py,
\* checked under SpecAai
\* ----------------------------------------------------------------------
\* C31: no ledger on disk lists an episode as completed and holds a pending
\* job id for it; the save that first lists the episode as completed writes
\* a ledger without its pending id, which the ledger saved before it held.
C31_CompletedNotPending ==
  /\ [](aaiFile.st = "ok" =>
          \A e \in Range(aaiFile.val.completed) :
             e \notin DOMAIN aaiFile.val.pending)
  /\ [][(aaiPc = "save_done" /\ aaiFile'.st = "ok") =>
          /\ aaiEp \in Range(aaiFile'.val.completed)
          /\ aaiEp \notin DOMAIN aaiFile'.val.pending]_vars

\* the ledger on disk lists as completed, and not as pending, an episode
\* whose job was submitted and saved as pending by this process
C31_Witness ==
  /\ aaiPc = "loop"
  /\ aaiFresh
  /\ aaiFile.st = "ok"
  /\ aaiSubmitted[aaiEp] = 1
  /\ aaiEp \in Range(aaiFile.val.completed)
  /\ aaiEp \notin DOMAIN aaiFile.val.pending

\* ----------------------------------------------------------------------
\* Further claims about match_guest, checked under SpecMg
\* ----------------------------------------------------------------------
\* C32: for a file name whose normalized form is the empty string
\* match_guest returns no episode, and the episode it returns for any name
\* has a guest name.
C32_EmptyNameMatchesNone ==
  mgPc # "call" =>
    /\ NormalizeName(mgName) = <<>> => mgResult.ep = 0
    /\ mgResult.ep # 0 => mgEpisodes[mgResult.ep] # <<>>

\* ----------------------------------------------------------------------
\* Further claims about add_transcript_to_page, checked under SpecChk
\* ----------------------------------------------------------------------
\* the words of the chunks, chunk after chunk
RECURSIVE FlatWords(_)
FlatWords(parts) ==
  IF parts = <<>> THEN <<>> ELSE Head(parts) \o FlatWords(Tail(parts))

\* C33: when the loop has ended with no more chunks than a request takes,
\* no chunk is empty, the words of the chunks in order are the words of the
\* text, and the chunks joined with single spaces have the length of the
\* words of the text joined with single spaces.
C33_ChunksRejoinToText ==
  (chkPc = "blocks" /\ Len(chkChunks) <= YtsMaxChunks) =>
     /\ \A k \in DOMAIN chkChunks : chkChunks[k] > 0
     /\ FlatWords(chkParts) = chkText
     /\ JoinLen(chkChunks) = JoinLen(chkText)
====
